---- MODULE Spec2Model ----
(***************************************************************************)
(* A model of the Polaris chess engine core: the board representation,    *)
(* the position with its undo stack and key history, pseudo-legal move    *)
(* generation (movegen.cpp) and the staged move generator (movegen.h).    *)
(*                                                                         *)
(* A Bitboard is modelled as the set of its squares (a subset of 0..63);  *)
(* | & ^ ~ become union, intersection, symmetric difference, complement.  *)
(* popLowestSquare loops become ascending traversals of the set.          *)
(***************************************************************************)
EXTENDS Integers, Sequences, FiniteSets, TLC

VARIABLES
    pos,            \* the Position: m_states, m_hashes, m_blackToMove, m_fullmove
    g_opts,         \* GlobalOptions: chess960, underpromotions
    Quiescence,     \* template parameter of MoveGenerator
    m_hashMove,     \* MoveGenerator::m_hashMove
    m_killer,       \* MoveGenerator::m_killer
    m_prevMove,     \* MoveGenerator::m_prevMove (TRUE: a non-null HistoryMove)
    m_prevPrevMove, \* MoveGenerator::m_prevPrevMove (TRUE: non-null)
    m_history,      \* MoveGenerator::m_history (NullHistory or a table)
    see,            \* the noisy moves for which see::see(pos, move) is false
    m_moves,        \* MoveGenerator::m_moves, a sequence of ScoredMove
    m_stage,        \* MoveGenerator::m_stage
    m_idx,          \* MoveGenerator::m_idx
    m_noisyEnd,     \* MoveGenerator::m_noisyEnd
    m_goodNoisyEnd, \* MoveGenerator::m_goodNoisyEnd
    m_countermove,  \* MoveGenerator::m_countermove
    returned,       \* history of next() results: [move, stage, origin]
    setup,          \* movegen harness: optional pieces placed so far
    genDone,        \* movegen harness: the three generators have run
    noisyList,      \* output of generateNoisy
    quietList,      \* output of generateQuiet
    allList,        \* output of generateAll
    saved,          \* position harness: snapshots taken before applyMove
    lastOp,         \* harnesses: the last operation performed and its result
    m_searcher,     \* UciHandler::m_searcher (search::Searcher)
    m_hashSize,     \* UciHandler::m_hashSize (NoValue: empty optional)
    m_newSearcherHashSize, \* UciHandler::m_newSearcherHashSize
    m_moveOverhead, \* UciHandler::m_moveOverhead
    received,       \* number of command lines UciHandler::run has read
    pawnCache,      \* eval::PawnCache: the table of entries
    positionBoards  \* boards harness: a PositionBoards and the pieces placed on it

mgVars == <<Quiescence, m_hashMove, m_killer, m_prevMove, m_prevPrevMove,
            m_history, see, m_moves, m_stage, m_idx, m_noisyEnd,
            m_goodNoisyEnd, m_countermove, returned>>
genVars == <<setup, genDone, noisyList, quietList, allList>>
posVars == <<saved, lastOp>>
uciVars == <<m_searcher, m_hashSize, m_newSearcherHashSize, m_moveOverhead, received>>
evalVars == <<pawnCache>>
restVars == <<uciVars, evalVars, positionBoards>>
vars == <<pos, g_opts, mgVars, genVars, posVars, restVars>>

----------------------------------------------------------------------------
(* Squares, colours, pieces                                                *)

Squares == 0 .. 63
SquareNone == 64
toSquare(rank, file) == rank * 8 + file
squareFile(s) == s % 8
squareRank(s) == s \div 8
SquareSeq == [i \in 1 .. 64 |-> i - 1]

Black == 0
White == 1
oppColor(c) == 1 - c

Pawn == 0
Knight == 1
Bishop == 2
Rook == 3
Queen == 4
King == 5
BasePieces == 0 .. 5

PieceNone == 12
colorPiece(base, c) == base * 2 + c
basePiece(p) == p \div 2
pieceColor(p) == p % 2
flipPieceColor(p) == IF p = PieceNone THEN PieceNone ELSE colorPiece(basePiece(p), oppColor(pieceColor(p)))

\* a1 = 0 ... h8 = 63
A1 == toSquare(0, 0)
C1 == toSquare(0, 2)
D1 == toSquare(0, 3)
F1 == toSquare(0, 5)
G1 == toSquare(0, 6)
H1 == toSquare(0, 7)
A8 == toSquare(7, 0)
C8 == toSquare(7, 2)
D8 == toSquare(7, 3)
F8 == toSquare(7, 5)
G8 == toSquare(7, 6)
H8 == toSquare(7, 7)

----------------------------------------------------------------------------
(* Bitboards and attack tables                                             *)

squareBit(s) == IF s \in Squares THEN {s} ELSE {}
multiple(bb) == Cardinality(bb) > 1
\* the set is non-empty wherever the code calls lowestSquare
lowestSquare(bb) == CHOOSE s \in bb : \A t \in bb : s <= t
\* the squares of a bitboard in popLowestSquare order
bitSquares(bb) == SelectSeq(SquareSeq, LAMBDA s : s \in bb)
xorBits(a, b) == (a \ b) \cup (b \ a)

RankBits(r) == {s \in Squares : squareRank(s) = r}
Rank1 == RankBits(0)
Rank8 == RankBits(7)
LightSquares == {s \in Squares : (squareRank(s) + squareFile(s)) % 2 = 1}

shiftUp(bb) == {s + 8 : s \in {t \in bb : squareRank(t) < 7}}
shiftDown(bb) == {s - 8 : s \in {t \in bb : squareRank(t) > 0}}
shiftUpRelative(us, bb) == IF us = Black THEN shiftDown(bb) ELSE shiftUp(bb)

\* offsets::up / upLeft / upRight, relative to the side to move
offsetUp(us) == IF us = Black THEN -8 ELSE 8
offsetUpLeft(us) == IF us = Black THEN -9 ELSE 7
offsetUpRight(us) == IF us = Black THEN -7 ELSE 9

shiftUpLeftRelative(us, bb) ==
    {s + offsetUpLeft(us) : s \in {t \in bb : squareFile(t) > 0 /\ (t + offsetUpLeft(us)) \in Squares}}
shiftUpRightRelative(us, bb) ==
    {s + offsetUpRight(us) : s \in {t \in bb : squareFile(t) < 7 /\ (t + offsetUpRight(us)) \in Squares}}

promotionRank(us) == IF us = Black THEN Rank1 ELSE Rank8
\* boards::rank<Us>(2): the third rank seen from Us
relativeRank(us, r) == IF us = Black THEN RankBits(7 - r) ELSE RankBits(r)

Abs(x) == IF x < 0 THEN -x ELSE x
Sgn(x) == IF x < 0 THEN -1 ELSE IF x > 0 THEN 1 ELSE 0

sameLine(a, b) == squareRank(a) = squareRank(b) \/ squareFile(a) = squareFile(b)
sameDiagonal(a, b) == Abs(squareRank(a) - squareRank(b)) = Abs(squareFile(a) - squareFile(b))

\* squares strictly between two aligned squares, else empty
RayBetweenTable ==
    [a \in Squares |-> [b \in Squares |->
        IF a = b \/ ~(sameLine(a, b) \/ sameDiagonal(a, b)) THEN {}
        ELSE LET dr == Sgn(squareRank(b) - squareRank(a))
                 df == Sgn(squareFile(b) - squareFile(a))
                 n == IF squareRank(a) = squareRank(b)
                      THEN Abs(squareFile(b) - squareFile(a))
                      ELSE Abs(squareRank(b) - squareRank(a))
             IN {toSquare(squareRank(a) + k * dr, squareFile(a) + k * df) : k \in 1 .. (n - 1)}]]
rayBetween(a, b) == RayBetweenTable[a][b]

KnightAttacks ==
    [s \in Squares |->
        {t \in Squares : {Abs(squareRank(t) - squareRank(s)), Abs(squareFile(t) - squareFile(s))} = {1, 2}}]
KingAttacks ==
    [s \in Squares |->
        {t \in Squares : t # s /\ Abs(squareRank(t) - squareRank(s)) <= 1
                                /\ Abs(squareFile(t) - squareFile(s)) <= 1}]
\* the squares a pawn of colour c standing on s attacks
PawnAttacks ==
    [s \in Squares |-> [c \in {Black, White} |->
        shiftUpLeftRelative(c, {s}) \cup shiftUpRightRelative(c, {s})]]

getKnightAttacks(s) == KnightAttacks[s]
getKingAttacks(s) == KingAttacks[s]
getPawnAttacks(s, c) == PawnAttacks[s][c]
getRookAttacks(s, occ) ==
    {t \in Squares : t # s /\ sameLine(s, t) /\ rayBetween(s, t) \cap occ = {}}
getBishopAttacks(s, occ) ==
    {t \in Squares : t # s /\ sameDiagonal(s, t) /\ rayBetween(s, t) \cap occ = {}}

----------------------------------------------------------------------------
(* PositionBoards (boards.h)                                               *)

EmptyBoards == [m_colors |-> [c \in 0 .. 1 |-> {}], m_boards |-> [p \in BasePieces |-> {}]]

forColor(boards, c) == boards.m_colors[c]
forPiece(boards, piece) == boards.m_boards[piece]
forPieceOf(boards, piece, c) == boards.m_boards[piece] \cap forColor(boards, c)
blackOccupancy(boards) == boards.m_colors[Black]
whiteOccupancy(boards) == boards.m_colors[White]
occupancy(boards) == boards.m_colors[Black] \cup boards.m_colors[White]

pawns(boards) == forPiece(boards, Pawn)
knights(boards) == forPiece(boards, Knight)
bishops(boards) == forPiece(boards, Bishop)
rooks(boards) == forPiece(boards, Rook)
queens(boards) == forPiece(boards, Queen)
kings(boards) == forPiece(boards, King)
minors(boards) == knights(boards) \cup bishops(boards)
majors(boards) == rooks(boards) \cup queens(boards)
nonPk(boards) == minors(boards) \cup majors(boards)

\* Piece::None for an empty square; PieceInvalid stands for the unreachable
\* branch (a colour bit with no piece bit)
PieceInvalid == 13
pieceAt(boards, square) ==
    IF square \in blackOccupancy(boards) \/ square \in whiteOccupancy(boards)
    THEN LET color == IF square \in blackOccupancy(boards) THEN Black ELSE White
             found == {p \in BasePieces : square \in forPiece(boards, p)}
         IN IF found = {} THEN PieceInvalid
            ELSE colorPiece(CHOOSE p \in found : \A q \in found : p <= q, color)
    ELSE PieceNone

boardsSetPiece(boards, square, piece) ==
    LET mask == squareBit(square)
    IN [m_colors |-> [boards.m_colors EXCEPT ![pieceColor(piece)] = xorBits(@, mask)],
        m_boards |-> [boards.m_boards EXCEPT ![basePiece(piece)] = xorBits(@, mask)]]

boardsMovePiece(boards, src, dst, piece) ==
    LET mask == squareBit(src) \cup squareBit(dst)
    IN [m_colors |-> [boards.m_colors EXCEPT ![pieceColor(piece)] = xorBits(@, mask)],
        m_boards |-> [boards.m_boards EXCEPT ![basePiece(piece)] = xorBits(@, mask)]]

boardsMoveAndChangePiece(boards, src, dst, moving, target) ==
    LET mask == squareBit(src) \cup squareBit(dst)
        cleared == [boards.m_boards EXCEPT ![basePiece(moving)] = @ \ {src}]
    IN [m_colors |-> [boards.m_colors EXCEPT ![pieceColor(moving)] = xorBits(@, mask)],
        m_boards |-> [cleared EXCEPT ![target] = @ \cup {dst}]]

\* removePiece clearing the piece bitboard only
boardsRemovePieceKeepColor(boards, square, piece) ==
    [m_colors |-> boards.m_colors,
     m_boards |-> [boards.m_boards EXCEPT ![basePiece(piece)] = @ \ {square}]]

boardsRemovePiece(boards, square, piece) ==
    [m_colors |-> [boards.m_colors EXCEPT ![pieceColor(piece)] = @ \ {square}],
     m_boards |-> [boards.m_boards EXCEPT ![basePiece(piece)] = @ \ {square}]]

----------------------------------------------------------------------------
(* Moves (16 bits: type, promotion target, dst, src)                       *)

moveStandard(src, dst) == [src |-> src, dst |-> dst, type |-> "Standard", target |-> Knight]
movePromotion(src, dst, target) == [src |-> src, dst |-> dst, type |-> "Promotion", target |-> target]
moveCastling(src, dst) == [src |-> src, dst |-> dst, type |-> "Castling", target |-> Knight]
moveEnPassant(src, dst) == [src |-> src, dst |-> dst, type |-> "EnPassant", target |-> Knight]
NullMove == moveStandard(0, 0)
\* Move::targetIdx: knight, bishop, rook, queen
targetIdx(move) == move.target - Knight

----------------------------------------------------------------------------
(* Position (position.h)                                                   *)

NoCastlingRooks == [blackShort |-> SquareNone, blackLong |-> SquareNone,
                    whiteShort |-> SquareNone, whiteLong |-> SquareNone]

currState(p) == p.m_states[Len(p.m_states)]
boardsOf(p) == currState(p).boards
toMove(p) == IF p.m_blackToMove THEN Black ELSE White
opponent(p) == IF p.m_blackToMove THEN White ELSE Black
castlingRooks(p) == currState(p).castlingRooks
enPassant(p) == currState(p).enPassant
halfmove(p) == currState(p).halfmove
fullmove(p) == p.m_fullmove
key(p) == currState(p).key
pawnKey(p) == currState(p).pawnKey
blackKing(p) == currState(p).kings[Black]
whiteKing(p) == currState(p).kings[White]
king(p, c) == currState(p).kings[c]
checkers(p) == currState(p).checkers
isCheck(p) == checkers(p) # {}

attackersTo(p, square, attacker) ==
    LET boards == boardsOf(p)
        occ == occupancy(boards)
        qs == forPieceOf(boards, Queen, attacker)
        rs == qs \cup forPieceOf(boards, Rook, attacker)
        bs == qs \cup forPieceOf(boards, Bishop, attacker)
    IN (rs \cap getRookAttacks(square, occ))
       \cup (bs \cap getBishopAttacks(square, occ))
       \cup (forPieceOf(boards, Pawn, attacker) \cap getPawnAttacks(square, oppColor(attacker)))
       \cup (forPieceOf(boards, Knight, attacker) \cap getKnightAttacks(square))
       \cup (forPieceOf(boards, King, attacker) \cap getKingAttacks(square))

isAttacked(p, square, attacker) ==
    LET boards == boardsOf(p)
        occ == occupancy(boards)
        qs == forPieceOf(boards, Queen, attacker)
    IN \/ forPieceOf(boards, Knight, attacker) \cap getKnightAttacks(square) # {}
       \/ forPieceOf(boards, Pawn, attacker) \cap getPawnAttacks(square, oppColor(attacker)) # {}
       \/ forPieceOf(boards, King, attacker) \cap getKingAttacks(square) # {}
       \/ (qs \cup forPieceOf(boards, Bishop, attacker)) \cap getBishopAttacks(square, occ) # {}
       \/ (qs \cup forPieceOf(boards, Rook, attacker)) \cap getRookAttacks(square, occ) # {}

anyAttacked(p, squares, attacker) == \E s \in squares : isAttacked(p, s, attacker)

\* the king square is a real square in every position the model builds
calcCheckers(p) == attackersTo(p, king(p, toMove(p)), oppColor(toMove(p)))

isNoisy(p, move) ==
    /\ move.type # "Castling"
    /\ \/ move.type = "EnPassant"
       \/ move.target = Queen
       \/ pieceAt(boardsOf(p), move.dst) # PieceNone

captureTarget(p, move) ==
    IF move.type = "Castling" THEN PieceNone
    ELSE IF move.type = "EnPassant" THEN flipPieceColor(pieceAt(boardsOf(p), move.src))
    ELSE pieceAt(boardsOf(p), move.dst)


----------------------------------------------------------------------------
(* Move generation (movegen.cpp)                                           *)

ScoredMove(move) == [move |-> move, score |-> 0]

RECURSIVE Flatten(_)
Flatten(ss) == IF ss = <<>> THEN <<>> ELSE Head(ss) \o Flatten(Tail(ss))

pushStandardsOffset(dst, offset, board) ==
    LET sq == bitSquares(board)
    IN dst \o [i \in 1 .. Len(sq) |-> ScoredMove(moveStandard(sq[i] - offset, sq[i]))]

pushStandardsFrom(dst, srcSquare, board) ==
    LET sq == bitSquares(board)
    IN dst \o [i \in 1 .. Len(sq) |-> ScoredMove(moveStandard(srcSquare, sq[i]))]

pushQueenPromotions(noisy, offset, board) ==
    LET sq == bitSquares(board)
    IN noisy \o [i \in 1 .. Len(sq) |-> ScoredMove(movePromotion(sq[i] - offset, sq[i], Queen))]

\* pushUnderpromotions without the rook and bishop promotions
pushKnightPromotions(quiet, offset, board, opts) ==
    LET sq == bitSquares(board)
    IN quiet \o [i \in 1 .. Len(sq) |-> ScoredMove(movePromotion(sq[i] - offset, sq[i], Knight))]

pushUnderpromotions(quiet, offset, board, opts) ==
    LET sq == bitSquares(board)
    IN quiet \o Flatten([i \in 1 .. Len(sq) |->
           <<ScoredMove(movePromotion(sq[i] - offset, sq[i], Knight))>>
           \o (IF opts.underpromotions
               THEN <<ScoredMove(movePromotion(sq[i] - offset, sq[i], Rook)),
                      ScoredMove(movePromotion(sq[i] - offset, sq[i], Bishop))>>
               ELSE <<>>)])

pushCastling(dst, srcSquare, dstSquare) == Append(dst, ScoredMove(moveCastling(srcSquare, dstSquare)))

pushEnPassants(noisy, offset, board) ==
    LET sq == bitSquares(board)
    IN noisy \o [i \in 1 .. Len(sq) |-> ScoredMove(moveEnPassant(sq[i] - offset, sq[i]))]

generatePawnsNoisy_(Us, noisy, p, dstMask) ==
    LET Them == oppColor(Us)
        PromotionRank == promotionRank(Us)
        boards == boardsOf(p)
        theirs == forColor(boards, Them)
        forwardDstMask == (dstMask \cap PromotionRank) \ theirs
        ps == forPieceOf(boards, Pawn, Us)
        leftAttacks == shiftUpLeftRelative(Us, ps) \cap dstMask
        rightAttacks == shiftUpRightRelative(Us, ps) \cap dstMask
        l1 == pushQueenPromotions(noisy, offsetUpLeft(Us), leftAttacks \cap theirs \cap PromotionRank)
        l2 == pushQueenPromotions(l1, offsetUpRight(Us), rightAttacks \cap theirs \cap PromotionRank)
        forwards == shiftUpRelative(Us, ps) \cap forwardDstMask
        l3 == pushQueenPromotions(l2, offsetUp(Us), forwards)
        l4 == pushStandardsOffset(l3, offsetUpLeft(Us), (leftAttacks \cap theirs) \ PromotionRank)
        l5 == pushStandardsOffset(l4, offsetUpRight(Us), (rightAttacks \cap theirs) \ PromotionRank)
    IN IF enPassant(p) # SquareNone
       THEN LET epMask == squareBit(enPassant(p))
                l6 == pushEnPassants(l5, offsetUpLeft(Us), leftAttacks \cap epMask)
            IN pushEnPassants(l6, offsetUpRight(Us), rightAttacks \cap epMask)
       ELSE l5

generatePawnsNoisy(noisy, p, dstMask) ==
    IF toMove(p) = Black
    THEN generatePawnsNoisy_(Black, noisy, p, dstMask)
    ELSE generatePawnsNoisy_(White, noisy, p, dstMask)

generatePawnsQuiet_(Us, quiet, boards, dstMask, occ, opts) ==
    LET Them == oppColor(Us)
        PromotionRank == promotionRank(Us)
        ThirdRank == relativeRank(Us, 2)
        theirs == forColor(boards, Them)
        forwardDstMask == dstMask \ theirs
        ps == forPieceOf(boards, Pawn, Us)
        leftAttacks == shiftUpLeftRelative(Us, ps) \cap dstMask
        rightAttacks == shiftUpRightRelative(Us, ps) \cap dstMask
        l1 == pushUnderpromotions(quiet, offsetUpLeft(Us), leftAttacks \cap theirs \cap PromotionRank, opts)
        l2 == pushUnderpromotions(l1, offsetUpRight(Us), rightAttacks \cap theirs \cap PromotionRank, opts)
        forwards == shiftUpRelative(Us, ps) \ occ
        singles == forwards \cap forwardDstMask
        l3 == pushUnderpromotions(l2, offsetUp(Us), singles \cap PromotionRank, opts)
        doubles == shiftUpRelative(Us, forwards \cap ThirdRank) \cap forwardDstMask
        l4 == pushStandardsOffset(l3, offsetUp(Us) * 2, doubles)
    IN pushStandardsOffset(l4, offsetUp(Us), singles \ PromotionRank)

generatePawnsQuiet(quiet, p, dstMask, occ, opts) ==
    IF toMove(p) = Black
    THEN generatePawnsQuiet_(Black, quiet, boardsOf(p), dstMask, occ, opts)
    ELSE generatePawnsQuiet_(White, quiet, boardsOf(p), dstMask, occ, opts)

\* Attacks is a 64-entry table of bitboards
precalculated(Piece, Attacks, dst, p, dstMask) ==
    LET srcs == bitSquares(forPieceOf(boardsOf(p), Piece, toMove(p)))
    IN dst \o Flatten([i \in 1 .. Len(srcs) |->
           pushStandardsFrom(<<>>, srcs[i], Attacks[srcs[i]] \cap dstMask)])

generateKnights(dst, p, dstMask) == precalculated(Knight, KnightAttacks, dst, p, dstMask)

generateFrcCastling(dst, p, occ0, kingSq, kingDst, rook, rookDst) ==
    LET toKingDst == rayBetween(kingSq, kingDst)
        toRook == rayBetween(kingSq, rook)
        occ == xorBits(xorBits(occ0, squareBit(kingSq)), squareBit(rook))
    IN IF /\ occ \cap (toKingDst \cup toRook \cup squareBit(kingDst) \cup squareBit(rookDst)) = {}
          /\ ~anyAttacked(p, toKingDst \cup squareBit(kingDst), opponent(p))
       THEN pushCastling(dst, kingSq, rook)
       ELSE dst

\* 0x0000000000000060, 0x000000000000000E, 0x6000000000000000, 0x0E00000000000000
WhiteShortPath == {5, 6}
WhiteLongPath == {1, 2, 3}
BlackShortPath == {61, 62}
BlackLongPath == {57, 58, 59}

generateKings(Castling, dst, p, dstMask, opts) ==
    LET l0 == precalculated(King, KingAttacks, dst, p, dstMask)
        cr == castlingRooks(p)
        occ == occupancy(boardsOf(p))
    IN IF ~Castling \/ isCheck(p) THEN l0
       ELSE IF opts.chess960
       THEN IF toMove(p) = Black
            THEN LET l1 == IF cr.blackShort # SquareNone
                           THEN generateFrcCastling(l0, p, occ, blackKing(p), G8, cr.blackShort, F8)
                           ELSE l0
                 IN IF cr.blackLong # SquareNone
                    THEN generateFrcCastling(l1, p, occ, blackKing(p), C8, cr.blackLong, D8)
                    ELSE l1
            ELSE LET l1 == IF cr.whiteShort # SquareNone
                           THEN generateFrcCastling(l0, p, occ, whiteKing(p), G1, cr.whiteShort, F1)
                           ELSE l0
                 IN IF cr.whiteLong # SquareNone
                    THEN generateFrcCastling(l1, p, occ, whiteKing(p), C1, cr.whiteLong, D1)
                    ELSE l1
       ELSE IF toMove(p) = Black
            THEN LET l1 == IF /\ cr.blackShort # SquareNone
                              /\ occ \cap BlackShortPath = {}
                              /\ ~isAttacked(p, F8, White)
                           THEN pushCastling(l0, blackKing(p), H8)
                           ELSE l0
                 IN IF /\ cr.blackLong # SquareNone
                       /\ occ \cap BlackLongPath = {}
                       /\ ~isAttacked(p, D8, White)
                    THEN pushCastling(l1, blackKing(p), A8)
                    ELSE l1
            ELSE LET l1 == IF /\ cr.whiteShort # SquareNone
                              /\ occ \cap WhiteShortPath = {}
                              /\ ~isAttacked(p, F1, Black)
                           THEN pushCastling(l0, whiteKing(p), H1)
                           ELSE l0
                 IN IF /\ cr.whiteLong # SquareNone
                       /\ occ \cap WhiteLongPath = {}
                       /\ ~isAttacked(p, D1, Black)
                    THEN pushCastling(l1, whiteKing(p), A1)
                    ELSE l1

generateSliders(dst, p, dstMask) ==
    LET boards == boardsOf(p)
        us == toMove(p)
        occ == forColor(boards, us) \cup forColor(boards, oppColor(us))
        qs == forPieceOf(boards, Queen, us)
        rs == bitSquares(qs \cup forPieceOf(boards, Rook, us))
        bs == bitSquares(qs \cup forPieceOf(boards, Bishop, us))
        l1 == dst \o Flatten([i \in 1 .. Len(rs) |->
                  pushStandardsFrom(<<>>, rs[i], getRookAttacks(rs[i], occ) \cap dstMask)])
    IN l1 \o Flatten([i \in 1 .. Len(bs) |->
           pushStandardsFrom(<<>>, bs[i], getBishopAttacks(bs[i], occ) \cap dstMask)])

\* the generators without the early return for two checkers
inDoubleCheckIgnored(p) == FALSE

\* if (pos.isCheck()) { if (pos.checkers().multiple()) ... return; }
inDoubleCheck(p) == isCheck(p) /\ multiple(checkers(p))

\* the en-passant mask and the pawn that just made the double push
epMaskOf(p) == IF enPassant(p) # SquareNone THEN squareBit(enPassant(p)) ELSE {}
epPawnOf(p) == IF toMove(p) = Black THEN shiftUp(epMaskOf(p)) ELSE shiftDown(epMaskOf(p))

\* generateNoisy's pawn destination mask when in check by one piece
noisyCheckPawnDstMask(p, kingDstMask, promos) ==
    kingDstMask \cup (promos \cap rayBetween(king(p, toMove(p)), lowestSquare(checkers(p))))

generateNoisy(noisy, p) ==
    LET boards == boardsOf(p)
        us == toMove(p)
        them == oppColor(us)
        ours == forColor(boards, us)
        kingDstMask == forColor(boards, them)
        epMask == epMaskOf(p)
        epPawn == epPawnOf(p)
        promos == (Squares \ ours) \cap (IF us = Black THEN Rank1 ELSE Rank8)
    IN IF inDoubleCheck(p)
       THEN generateKings(FALSE, noisy, p, kingDstMask, g_opts)
       ELSE LET dstMask == IF isCheck(p) THEN checkers(p) ELSE kingDstMask
                pawnDstMask ==
                    IF isCheck(p)
                    THEN noisyCheckPawnDstMask(p, kingDstMask, promos)
                         \cup (IF checkers(p) \cap epPawn # {} THEN epMask ELSE {})
                    ELSE kingDstMask \cup epMask \cup promos
                l1 == generateSliders(noisy, p, dstMask)
                l2 == generatePawnsNoisy(l1, p, pawnDstMask)
                l3 == generateKnights(l2, p, dstMask)
            IN generateKings(FALSE, l3, p, kingDstMask, g_opts)

generateQuiet(quiet, p) ==
    LET boards == boardsOf(p)
        us == toMove(p)
        them == oppColor(us)
        ours == forColor(boards, us)
        theirs == forColor(boards, them)
        kingDstMask == Squares \ (ours \cup theirs)
    IN IF inDoubleCheck(p)
       THEN generateKings(FALSE, quiet, p, kingDstMask, g_opts)
       ELSE LET dstMask == IF isCheck(p)
                           THEN rayBetween(king(p, us), lowestSquare(checkers(p)))
                           ELSE kingDstMask
                pawnDstMask == IF isCheck(p)
                               THEN dstMask \cup (checkers(p) \cap promotionRank(us))
                               ELSE kingDstMask \cup promotionRank(us)
                l1 == generateSliders(quiet, p, dstMask)
                l2 == generatePawnsQuiet(l1, p, pawnDstMask, ours \cup theirs, g_opts)
                l3 == generateKnights(l2, p, dstMask)
            IN generateKings(TRUE, l3, p, kingDstMask, g_opts)

generateAll(dst, p) ==
    LET boards == boardsOf(p)
        us == toMove(p)
        kingDstMask == Squares \ forColor(boards, toMove(p))
        epMask == epMaskOf(p)
        epPawn == epPawnOf(p)
    IN IF inDoubleCheck(p)
       THEN generateKings(FALSE, dst, p, kingDstMask, g_opts)
       ELSE LET dstMask == IF isCheck(p)
                           THEN checkers(p) \cup rayBetween(king(p, us), lowestSquare(checkers(p)))
                           ELSE kingDstMask
                pawnDstMask == IF isCheck(p) /\ checkers(p) \cap epPawn # {}
                               THEN dstMask \cup epMask
                               ELSE dstMask
                l1 == generateSliders(dst, p, dstMask)
                l2 == generatePawnsNoisy(l1, p, pawnDstMask)
                l3 == generatePawnsQuiet(l2, p, dstMask, occupancy(boards), g_opts)
                l4 == generateKnights(l3, p, dstMask)
            IN generateKings(TRUE, l4, p, kingDstMask, g_opts)

----------------------------------------------------------------------------
(* Position: keys, material, construction, applyMove / popMove             *)

\* A Zobrist key is modelled as the set of the terms XORed into it:
\* piece-square terms 0..767, the side-to-move term, one term per castling
\* rights word, one term per en-passant file. XOR is symmetric difference.
pieceSquareTerm(piece, square) == piece * 64 + square
ColorTerm == 768
castlingTerm(cr) ==
    769 + (IF cr.blackShort # SquareNone THEN 1 ELSE 0) + (IF cr.blackLong # SquareNone THEN 2 ELSE 0)
        + (IF cr.whiteShort # SquareNone THEN 4 ELSE 0) + (IF cr.whiteLong # SquareNone THEN 8 ELSE 0)
enPassantTerm(square) == IF square = SquareNone THEN {} ELSE {800 + squareFile(square)}

\* eval::pieceValue: tapered (midgame, endgame) values by base piece
PieceValues ==
    [b \in BasePieces |->
        CASE b = Pawn -> [midgame |-> 100, endgame |-> 120]
          [] b = Knight -> [midgame |-> 320, endgame |-> 300]
          [] b = Bishop -> [midgame |-> 330, endgame |-> 320]
          [] b = Rook -> [midgame |-> 500, endgame |-> 550]
          [] b = Queen -> [midgame |-> 950, endgame |-> 1000]
          [] OTHER -> [midgame |-> 0, endgame |-> 0]]
pieceValue(piece) == IF piece = PieceNone THEN [midgame |-> 0, endgame |-> 0] ELSE PieceValues[basePiece(piece)]
\* white-relative: white pieces count positive, black pieces negative
signedValue(piece) ==
    LET v == pieceValue(piece)
        sgn == IF pieceColor(piece) = White THEN 1 ELSE -1
    IN [midgame |-> sgn * v.midgame, endgame |-> sgn * v.endgame]
addScore(a, b) == [midgame |-> a.midgame + b.midgame, endgame |-> a.endgame + b.endgame]
subScore(a, b) == [midgame |-> a.midgame - b.midgame, endgame |-> a.endgame - b.endgame]
PhaseInc == [b \in BasePieces |-> CASE b \in {Knight, Bishop} -> 1 [] b = Rook -> 2 [] b = Queen -> 4 [] OTHER -> 0]
phaseOf(piece) == IF piece = PieceNone THEN 0 ELSE PhaseInc[basePiece(piece)]
MaxPhase == 24
clampPhase(x) == IF x > MaxPhase THEN MaxPhase ELSE IF x < 0 THEN 0 ELSE x

RECURSIVE SumOver(_, _)
SumOver(S, f) == IF S = {} THEN 0 ELSE LET x == CHOOSE y \in S : TRUE IN f[x] + SumOver(S \ {x}, f)

\* from-scratch recomputation of the derived fields (Position::regen)
occupiedPieces(boards) == {<<pieceAt(boards, s), s>> : s \in occupancy(boards)}
scratchKey(boards, blackToMove, cr, ep) ==
    {pieceSquareTerm(ps[1], ps[2]) : ps \in occupiedPieces(boards)}
    \cup (IF blackToMove THEN {ColorTerm} ELSE {}) \cup {castlingTerm(cr)} \cup enPassantTerm(ep)
scratchPawnKey(boards, blackToMove) ==
    {pieceSquareTerm(ps[1], ps[2]) : ps \in {q \in occupiedPieces(boards) : basePiece(q[1]) = Pawn}}
    \cup (IF blackToMove THEN {ColorTerm} ELSE {})
scratchMaterial(boards) ==
    LET ps == occupiedPieces(boards)
    IN [midgame |-> SumOver(ps, [q \in ps |-> signedValue(q[1]).midgame]),
        endgame |-> SumOver(ps, [q \in ps |-> signedValue(q[1]).endgame])]
scratchPhase(boards) ==
    LET ps == occupiedPieces(boards)
    IN clampPhase(SumOver(ps, [q \in ps |-> phaseOf(q[1])]))
kingSquare(boards, c) ==
    IF forPieceOf(boards, King, c) = {} THEN SquareNone ELSE lowestSquare(forPieceOf(boards, King, c))

RECURSIVE placeAll(_, _)
placeAll(boards, placements) ==
    IF placements = <<>> THEN boards
    ELSE placeAll(boardsSetPiece(boards, Head(placements)[2], Head(placements)[1]), Tail(placements))

\* a position parsed from a FEN: placements is a sequence of <<piece, square>>
positionFrom(placements, blackToMove, cr, ep, hm, fm) ==
    LET boards == placeAll(EmptyBoards, placements)
        state == [boards |-> boards,
                  key |-> scratchKey(boards, blackToMove, cr, ep),
                  pawnKey |-> scratchPawnKey(boards, blackToMove),
                  material |-> scratchMaterial(boards),
                  checkers |-> {},
                  phase |-> scratchPhase(boards),
                  castlingRooks |-> cr,
                  lastMove |-> NullMove,
                  halfmove |-> hm,
                  captured |-> PieceNone,
                  enPassant |-> ep,
                  kings |-> [c \in 0 .. 1 |-> kingSquare(boards, c)]]
        p0 == [m_blackToMove |-> blackToMove, m_fullmove |-> fm,
               m_states |-> <<state>>, m_hashes |-> <<>>]
    IN [p0 EXCEPT !.m_states[1].checkers = calcCheckers(p0)]

\* final king and rook squares of a castling move, by side and wing
castleKingDst(us, short) == IF us = Black THEN (IF short THEN G8 ELSE C8) ELSE (IF short THEN G1 ELSE C1)
castleRookDst(us, short) == IF us = Black THEN (IF short THEN F8 ELSE D8) ELSE (IF short THEN F1 ELSE D1)

clearRook(cr, square) ==
    [blackShort |-> IF cr.blackShort = square THEN SquareNone ELSE cr.blackShort,
     blackLong |-> IF cr.blackLong = square THEN SquareNone ELSE cr.blackLong,
     whiteShort |-> IF cr.whiteShort = square THEN SquareNone ELSE cr.whiteShort,
     whiteLong |-> IF cr.whiteLong = square THEN SquareNone ELSE cr.whiteLong]
clearColor(cr, c) ==
    IF c = Black THEN [cr EXCEPT !.blackShort = SquareNone, !.blackLong = SquareNone]
    ELSE [cr EXCEPT !.whiteShort = SquareNone, !.whiteLong = SquareNone]

applyMoveUnchecked(p, move, UpdateMaterial, StateHistory) ==
    LET prev == currState(p)
        us == toMove(p)
        them == oppColor(us)
        src == move.src
        dst == move.dst
        moving == pieceAt(prev.boards, src)
        capSq == IF move.type = "EnPassant" THEN dst - offsetUp(us) ELSE dst
        captured == IF move.type = "Castling" THEN PieceNone
                    ELSE IF move.type = "EnPassant" THEN colorPiece(Pawn, them)
                    ELSE pieceAt(prev.boards, dst)
        short == squareFile(src) < squareFile(dst)
        kingDst == castleKingDst(us, short)
        rookDst == castleRookDst(us, short)
        rook == colorPiece(Rook, us)
        placed == IF move.type = "Promotion" THEN colorPiece(move.target, us) ELSE moving
        b1 == IF captured # PieceNone THEN boardsRemovePiece(prev.boards, capSq, captured) ELSE prev.boards
        b2 == CASE move.type = "Promotion" -> boardsMoveAndChangePiece(b1, src, dst, moving, move.target)
                [] move.type = "Castling" ->
                     boardsSetPiece(boardsSetPiece(
                         boardsRemovePiece(boardsRemovePiece(b1, src, moving), dst, rook),
                         kingDst, moving), rookDst, rook)
                [] OTHER -> boardsMovePiece(b1, src, dst, moving)
        cr1 == IF basePiece(moving) = King THEN clearColor(prev.castlingRooks, us) ELSE prev.castlingRooks
        cr2 == clearRook(clearRook(cr1, src), dst)
        isDouble == basePiece(moving) = Pawn /\ Abs(dst - src) = 16
        ep == IF isDouble THEN src + offsetUp(us) ELSE SquareNone
        movedTerms ==
            IF move.type = "Castling"
            THEN xorBits(xorBits({pieceSquareTerm(moving, src)}, {pieceSquareTerm(moving, kingDst)}),
                         xorBits({pieceSquareTerm(rook, dst)}, {pieceSquareTerm(rook, rookDst)}))
            ELSE {pieceSquareTerm(moving, src), pieceSquareTerm(placed, dst)}
        capTerms == IF captured # PieceNone THEN {pieceSquareTerm(captured, capSq)} ELSE {}
        k1 == xorBits(xorBits(prev.key, movedTerms), capTerms)
        k2 == xorBits(xorBits(k1, {castlingTerm(prev.castlingRooks)}), {castlingTerm(cr2)})
        k3 == xorBits(xorBits(k2, enPassantTerm(prev.enPassant)), enPassantTerm(ep))
        newKey == xorBits(k3, {ColorTerm})
        pawnTerms == {t \in xorBits(movedTerms, capTerms) : t \div 64 \in {colorPiece(Pawn, Black), colorPiece(Pawn, White)}}
        newPawnKey == xorBits(xorBits(prev.pawnKey, pawnTerms), {ColorTerm})
        m1 == IF captured # PieceNone THEN subScore(prev.material, signedValue(captured)) ELSE prev.material
        m2 == IF move.type = "Promotion"
              THEN addScore(subScore(m1, signedValue(moving)), signedValue(placed))
              ELSE m1
        ph == clampPhase(prev.phase - phaseOf(captured)
                         + (IF move.type = "Promotion" THEN phaseOf(placed) ELSE 0))
        state == [boards |-> b2,
                  key |-> newKey,
                  pawnKey |-> newPawnKey,
                  material |-> IF UpdateMaterial THEN m2 ELSE prev.material,
                  checkers |-> {},
                  phase |-> IF UpdateMaterial THEN ph ELSE prev.phase,
                  castlingRooks |-> cr2,
                  lastMove |-> move,
                  halfmove |-> IF basePiece(moving) = Pawn \/ captured # PieceNone THEN 0 ELSE prev.halfmove + 1,
                  captured |-> captured,
                  enPassant |-> ep,
                  kings |-> IF basePiece(moving) = King
                            THEN [prev.kings EXCEPT ![us] = IF move.type = "Castling" THEN kingDst ELSE dst]
                            ELSE prev.kings]
        p1 == [m_blackToMove |-> ~p.m_blackToMove,
               m_fullmove |-> IF us = Black THEN p.m_fullmove + 1 ELSE p.m_fullmove,
               m_states |-> IF StateHistory THEN Append(p.m_states, state)
                            ELSE [p.m_states EXCEPT ![Len(p.m_states)] = state],
               m_hashes |-> Append(p.m_hashes, newKey)]
    IN [p1 EXCEPT !.m_states[Len(p1.m_states)].checkers = calcCheckers(p1)]

\* applyMove<UpdateMaterial = true>: StateHistory keeps its default, true
applyMoveNoHistory(p, move) == applyMoveUnchecked(p, move, TRUE, FALSE)
applyMove(p, move) == applyMoveUnchecked(p, move, TRUE, TRUE)

\* the frame and the key pushed by the matching applyMove are dropped
popMove(p) ==
    [m_blackToMove |-> ~p.m_blackToMove,
     m_fullmove |-> IF p.m_blackToMove THEN p.m_fullmove ELSE p.m_fullmove - 1,
     m_states |-> IF Len(p.m_states) > 1 THEN SubSeq(p.m_states, 1, Len(p.m_states) - 1) ELSE p.m_states,
     m_hashes |-> SubSeq(p.m_hashes, 1, Len(p.m_hashes) - 1)]

\* operator== : every other field is said to be a function of these
positionEquals(p, q) ==
    /\ currState(p).boards = currState(q).boards
    /\ currState(p).castlingRooks = currState(q).castlingRooks
    /\ currState(p).enPassant = currState(q).enPassant
    /\ currState(p).halfmove = currState(q).halfmove
    /\ p.m_fullmove = q.m_fullmove

deepEquals(p, q) ==
    /\ positionEquals(p, q)
    /\ currState(p).kings = currState(q).kings
    /\ currState(p).checkers = currState(q).checkers
    /\ currState(p).phase = currState(q).phase
    /\ currState(p).material = currState(q).material
    /\ currState(p).key = currState(q).key
    /\ currState(p).pawnKey = currState(q).pawnKey

\* the backwards scan of m_hashes: true at the repetitionsLeft-th match
repetitionFound(p, threefold) ==
    LET currKey == key(p)
        repetitionsLeft == IF threefold THEN 2 ELSE 1
    IN Cardinality({i \in 1 .. Len(p.m_hashes) : p.m_hashes[i] = currKey}) >= repetitionsLeft

\* the material part of isDrawn without its KBKB branch
insufficientMaterialNoBishops(p) ==
    LET boards == boardsOf(p)
    IN pawns(boards) = {} /\ majors(boards) = {} /\ ~multiple(nonPk(boards))

insufficientMaterial(p) ==
    LET boards == boardsOf(p)
        blackNonPk == nonPk(boards) \cap blackOccupancy(boards)
        whiteNonPk == nonPk(boards) \cap whiteOccupancy(boards)
        blackMinors == minors(boards) \cap blackOccupancy(boards)
        whiteMinors == minors(boards) \cap whiteOccupancy(boards)
        blackBishops == bishops(boards) \cap blackOccupancy(boards)
        whiteBishops == bishops(boards) \cap whiteOccupancy(boards)
    IN IF pawns(boards) # {} \/ majors(boards) # {} THEN FALSE
       ELSE IF nonPk(boards) = {} THEN TRUE
       ELSE IF \/ (blackNonPk = {} /\ whiteNonPk = whiteMinors /\ ~multiple(whiteMinors))
               \/ (whiteNonPk = {} /\ blackNonPk = blackMinors /\ ~multiple(blackMinors))
       THEN TRUE
       ELSE /\ blackNonPk = blackBishops /\ whiteNonPk = whiteBishops
            /\ ~multiple(blackBishops) /\ ~multiple(whiteBishops)
            /\ (blackBishops \cap LightSquares = {}) # (whiteBishops \cap LightSquares = {})

isDrawn(p, threefold) ==
    IF halfmove(p) >= 100 THEN TRUE
    ELSE IF repetitionFound(p, threefold) THEN TRUE
    ELSE insufficientMaterial(p)

isLikelyDrawn(p) ==
    LET boards == boardsOf(p)
        blackNonPk == nonPk(boards) \cap blackOccupancy(boards)
        whiteNonPk == nonPk(boards) \cap whiteOccupancy(boards)
        blackMinors == minors(boards) \cap blackOccupancy(boards)
        whiteMinors == minors(boards) \cap whiteOccupancy(boards)
        blackKnights == knights(boards) \cap blackOccupancy(boards)
        whiteKnights == knights(boards) \cap whiteOccupancy(boards)
        blackBishops == bishops(boards) \cap blackOccupancy(boards)
        whiteBishops == bishops(boards) \cap whiteOccupancy(boards)
    IN IF pawns(boards) # {} \/ majors(boards) # {} THEN FALSE
       ELSE IF \/ (blackNonPk = {} /\ whiteNonPk = whiteKnights /\ Cardinality(whiteKnights) < 3)
               \/ (whiteNonPk = {} /\ blackNonPk = blackKnights /\ Cardinality(blackKnights) < 3)
       THEN TRUE
       ELSE IF nonPk(boards) # {}
       THEN IF ~multiple(whiteMinors) /\ ~multiple(blackMinors) THEN TRUE
            ELSE /\ nonPk(boards) = bishops(boards)
                 /\ \/ (Cardinality(whiteBishops) < 3 /\ ~multiple(blackBishops))
                    \/ (Cardinality(blackBishops) < 3 /\ ~multiple(whiteBishops))
       ELSE FALSE

----------------------------------------------------------------------------
(* Harness for the move generators: positions are set up as a FEN would   *)
(* give them (kings and fixed pieces, then a few optional pieces and an   *)
(* optional en-passant square), then the three generators run.            *)

MaxPieces == 3

wP == colorPiece(Pawn, White)
wN == colorPiece(Knight, White)
wB == colorPiece(Bishop, White)
wR == colorPiece(Rook, White)
wQ == colorPiece(Queen, White)
wK == colorPiece(King, White)
bP == colorPiece(Pawn, Black)
bN == colorPiece(Knight, Black)
bB == colorPiece(Bishop, Black)
bR == colorPiece(Rook, Black)
bQ == colorPiece(Queen, Black)
bK == colorPiece(King, Black)

\* each scenario: fixed pieces, side to move, castling rooks, optional
\* pieces, the en-passant square a FEN may name, and the option settings
Scenarios == <<
    \* 1: white Ke1 Ra1 Rh1 with both castling rights, black Ke8
    [base |-> <<<<wK, toSquare(0, 4)>>, <<wR, A1>>, <<wR, H1>>, <<bK, toSquare(7, 4)>>>>,
     blackToMove |-> FALSE,
     cr |-> [NoCastlingRooks EXCEPT !.whiteShort = H1, !.whiteLong = A1],
     options |-> <<<<bR, toSquare(4, 4)>>, <<bB, toSquare(3, 1)>>, <<bN, toSquare(2, 5)>>,
                   <<bN, toSquare(2, 3)>>, <<wP, toSquare(1, 2)>>, <<wP, toSquare(1, 6)>>,
                   <<wB, F1>>, <<bR, F8>>, <<wQ, D1>>, <<bQ, toSquare(3, 7)>>,
                   <<bN, toSquare(2, 7)>>>>,
     ep |-> SquareNone,
     opts |-> {[chess960 |-> c, underpromotions |-> FALSE] : c \in BOOLEAN}],
    \* 2: white Kh8 and pawns on the seventh rank, black Ka2
    [base |-> <<<<wK, H8>>, <<bK, toSquare(1, 0)>>>>,
     blackToMove |-> FALSE,
     cr |-> NoCastlingRooks,
     options |-> <<<<bR, A8>>, <<wP, toSquare(6, 2)>>, <<wP, toSquare(6, 1)>>, <<bN, D8>>,
                   <<bB, toSquare(7, 1)>>, <<bN, toSquare(6, 5)>>, <<wP, toSquare(5, 6)>>,
                   <<bQ, toSquare(4, 7)>>, <<wP, toSquare(6, 4)>>>>,
     ep |-> SquareNone,
     opts |-> {[chess960 |-> FALSE, underpromotions |-> u] : u \in BOOLEAN}],
    \* 3: white Ke4, black pawn d5 that may just have made a double push
    [base |-> <<<<wK, toSquare(3, 4)>>, <<bK, H8>>>>,
     blackToMove |-> FALSE,
     cr |-> NoCastlingRooks,
     options |-> <<<<bP, toSquare(4, 3)>>, <<wP, toSquare(4, 4)>>, <<wP, toSquare(4, 2)>>,
                   <<wP, toSquare(3, 2)>>, <<bN, toSquare(5, 5)>>, <<bP, toSquare(4, 5)>>,
                   <<bR, toSquare(7, 4)>>, <<wN, toSquare(2, 2)>>>>,
     ep |-> toSquare(5, 3),
     opts |-> {[chess960 |-> FALSE, underpromotions |-> FALSE]}],
    \* 4: white Ke5 on the diagonal b8-e5 that runs through the en-passant square d6
    [base |-> <<<<wK, toSquare(4, 4)>>, <<bK, H8>>>>,
     blackToMove |-> FALSE,
     cr |-> NoCastlingRooks,
     options |-> <<<<bP, toSquare(4, 3)>>, <<wP, toSquare(4, 2)>>, <<bB, toSquare(7, 1)>>,
                   <<wN, toSquare(3, 1)>>, <<bN, toSquare(2, 3)>>>>,
     ep |-> toSquare(5, 3),
     opts |-> {[chess960 |-> FALSE, underpromotions |-> FALSE]}],
    \* 5: black to move, black Ke8 Ra8 Rh8 with both castling rights, white Ke1
    [base |-> <<<<bK, toSquare(7, 4)>>, <<bR, A8>>, <<bR, H8>>, <<wK, toSquare(0, 4)>>>>,
     blackToMove |-> TRUE,
     cr |-> [NoCastlingRooks EXCEPT !.blackShort = H8, !.blackLong = A8],
     options |-> <<<<wR, toSquare(3, 4)>>, <<wB, toSquare(4, 1)>>, <<wN, toSquare(5, 5)>>,
                   <<bP, toSquare(6, 6)>>, <<wP, toSquare(6, 3)>>, <<bP, toSquare(1, 2)>>,
                   <<wN, toSquare(0, 1)>>, <<wR, F1>>, <<bP, toSquare(3, 3)>>,
                   <<wP, toSquare(3, 4)>>>>,
     ep |-> toSquare(2, 4),
     opts |-> {[chess960 |-> c, underpromotions |-> c] : c \in BOOLEAN}],
    \* 6: a Chess960 set-up given by a Shredder-FEN (castling field "C"):
    \* white Kb1 and the short castling rook on c1, black Ke8; UCI_Chess960
    \* may be on or have been switched off again
    [base |-> <<<<wK, toSquare(0, 1)>>, <<wR, C1>>, <<bK, toSquare(7, 4)>>>>,
     blackToMove |-> FALSE,
     cr |-> [NoCastlingRooks EXCEPT !.whiteShort = C1],
     options |-> <<<<bR, F8>>, <<wN, G1>>, <<bN, toSquare(2, 2)>>, <<wP, toSquare(1, 0)>>,
                   <<bB, toSquare(5, 0)>>>>,
     ep |-> SquareNone,
     opts |-> {[chess960 |-> c, underpromotions |-> FALSE] : c \in BOOLEAN}]
>>

RECURSIVE setToSeq(_)
setToSeq(S) == IF S = {} THEN <<>> ELSE LET x == CHOOSE y \in S : \A z \in S : y <= z IN <<x>> \o setToSeq(S \ {x})

scenarioPlacements(sc, included) ==
    sc.base \o [i \in 1 .. Cardinality(included) |-> sc.options[setToSeq(included)[i]]]

scenarioPosition(su) ==
    LET sc == Scenarios[su.scenario]
    IN positionFrom(scenarioPlacements(sc, su.included), sc.blackToMove, sc.cr,
                    IF su.ep THEN sc.ep ELSE SquareNone, 0, 1)

\* a FEN's en-passant square: empty, behind a pawn of the side that just
\* moved, with that pawn's origin square empty too
enPassantPlausible(p, square) ==
    LET them == opponent(p)
        boards == boardsOf(p)
    IN /\ square # SquareNone
       /\ square \notin occupancy(boards)
       /\ (square - offsetUp(them)) \notin occupancy(boards)
       /\ pieceAt(boards, square + offsetUp(them)) = colorPiece(Pawn, them)

\* a std::optional without a value
NoValue == [has |-> FALSE, value |-> 0]
Some(v) == [has |-> TRUE, value |-> v]

\* the move overhead a new handler starts with (limit/time.h)
DefaultMoveOverhead == 10

\* a new search::Searcher: not searching, an empty table of the default size
NewSearcher == [searching |-> FALSE, hashSize |-> 16, tt |-> "empty", threads |-> 1]

\* UciHandler's members after construction
\* eval::PawnCache (eval.h): a direct-mapped table, empty entries at first
PawnCacheSize == 2
PawnCacheEntry(k, e, ps) == [key |-> k, eval |-> e, passers |-> ps]
EmptyPawnCache == [i \in 0 .. (PawnCacheSize - 1) |-> PawnCacheEntry({}, [midgame |-> 0, endgame |-> 0], {})]
\* a PositionBoards with no piece on it, and the record of what was placed
EmptyPlaced == [boards |-> EmptyBoards, placed |-> [s \in Squares |-> PieceNone], ops |-> 0, last |-> "none"]

RestInit ==
    /\ pawnCache = EmptyPawnCache
    /\ positionBoards = EmptyPlaced
    /\ m_searcher = NewSearcher
    /\ m_hashSize = NoValue
    /\ m_newSearcherHashSize = NoValue
    /\ m_moveOverhead = DefaultMoveOverhead
    /\ received = 0

InitGen ==
    /\ RestInit
    /\ \E s \in 1 .. Len(Scenarios) :
           /\ setup = [scenario |-> s, included |-> {}, ep |-> FALSE]
           /\ g_opts \in Scenarios[s].opts
    /\ pos = scenarioPosition(setup)
    /\ genDone = FALSE
    /\ noisyList = <<>>
    /\ quietList = <<>>
    /\ allList = <<>>
    /\ Quiescence = FALSE
    /\ m_hashMove = NullMove
    /\ m_killer = NullMove
    /\ m_prevMove = FALSE
    /\ m_prevPrevMove = FALSE
    /\ m_history = [present |-> FALSE, countermove |-> NullMove, table |-> 0]
    /\ see = {}
    /\ m_moves = <<>>
    /\ m_stage = 0
    /\ m_idx = 0
    /\ m_noisyEnd = 0
    /\ m_goodNoisyEnd = 0
    /\ m_countermove = NullMove
    /\ returned = <<>>
    /\ saved = <<>>
    /\ lastOp = [op |-> "init"]

\* one more piece field of the FEN: an optional piece on an empty square
PlacePiece ==
    /\ ~genDone
    /\ Cardinality(setup.included) < MaxPieces
    /\ \E i \in 1 .. Len(Scenarios[setup.scenario].options) :
           /\ i \notin setup.included
           /\ Scenarios[setup.scenario].options[i][2] \notin occupancy(boardsOf(pos))
           /\ setup' = [setup EXCEPT !.included = @ \cup {i}, !.ep = FALSE]
    /\ pos' = scenarioPosition(setup')
    /\ UNCHANGED <<g_opts, genDone, noisyList, quietList, allList, mgVars, posVars, restVars>>

\* the en-passant field of the FEN
SetEnPassant ==
    /\ ~genDone
    /\ ~setup.ep
    /\ enPassantPlausible(pos, Scenarios[setup.scenario].ep)
    /\ setup' = [setup EXCEPT !.ep = TRUE]
    /\ pos' = scenarioPosition(setup')
    /\ UNCHANGED <<g_opts, genDone, noisyList, quietList, allList, mgVars, posVars, restVars>>

Generate ==
    /\ ~genDone
    /\ genDone' = TRUE
    /\ noisyList' = generateNoisy(<<>>, pos)
    /\ quietList' = generateQuiet(<<>>, pos)
    /\ allList' = generateAll(<<>>, pos)
    /\ UNCHANGED <<pos, g_opts, setup, mgVars, posVars, restVars>>

NextGen == PlacePiece \/ SetEnPassant \/ Generate

SpecGen == InitGen /\ [][NextGen]_vars

moveSet(list) == {list[i].move : i \in 1 .. Len(list)}

----------------------------------------------------------------------------
(* Properties of generateNoisy, generateQuiet and generateAll              *)

generatedLists == <<noisyList, quietList, allList>>
movesKing(m) == basePiece(pieceAt(boardsOf(pos), m.src)) = King
inSingleCheck == isCheck(pos) /\ ~multiple(checkers(pos))
checkerSquare == lowestSquare(checkers(pos))
checkRay == rayBetween(king(pos, toMove(pos)), checkerSquare)

\* C7: in every position the set of moves of generateAll is the union of
\* the sets of generateNoisy and generateQuiet
C7_AllIsNoisyPlusQuiet ==
    genDone => moveSet(allList) = moveSet(noisyList) \cup moveSet(quietList)

\* C8: in check by exactly one piece, every generated move of a piece other
\* than the king lands on the checker's square or strictly between king and
\* checker, an en-passant capture of the checking pawn counting as a
\* capture of the checker
C8_SingleCheckDestinations ==
    genDone /\ inSingleCheck =>
        \A l \in 1 .. 3 : \A m \in moveSet(generatedLists[l]) :
            ~movesKing(m) =>
                \/ m.dst \in checkers(pos) \cup checkRay
                \/ m.type = "EnPassant" /\ checkers(pos) \cap epPawnOf(pos) # {}

\* C9: in check by two or more pieces the three generators emit only moves
\* of the king, none of them castling
C9_DoubleCheckKingOnly ==
    genDone /\ multiple(checkers(pos)) =>
        \A l \in 1 .. 3 : \A m \in moveSet(generatedLists[l]) :
            movesKing(m) /\ m.type # "Castling"

\* a double check with castling rights and other own pieces on the board,
\* where the generators have produced king moves
C9_Witness ==
    /\ genDone
    /\ multiple(checkers(pos))
    /\ allList # <<>>
    /\ moveSet(allList) = moveSet(noisyList) \cup moveSet(quietList)
    /\ castlingRooks(pos) # NoCastlingRooks
    /\ forColor(boardsOf(pos), toMove(pos)) \ kings(boardsOf(pos)) # {}

----------------------------------------------------------------------------
(* isPseudolegal, SEE and the history tables                               *)

\* Position::isPseudolegal: the right side moves a piece standing on src
\* along legal geometry to a square not held by an own piece; promotions
\* only onto the last rank, en passant only onto the en-passant square,
\* castling only with the right and a free path. Self-check is not tested.
isPseudolegal(p, move) ==
    LET notOurs == Squares \ forColor(boardsOf(p), toMove(p))
        opts == [g_opts EXCEPT !.underpromotions = TRUE]
        l1 == generateSliders(<<>>, p, notOurs)
        l2 == generatePawnsNoisy(l1, p, notOurs)
        l3 == generatePawnsQuiet(l2, p, notOurs, occupancy(boardsOf(p)), opts)
        l4 == generateKnights(l3, p, notOurs)
    IN move \in moveSet(generateKings(TRUE, l4, p, notOurs, opts))

\* see::see(pos, move) against threshold 0; its outcome for each capture
\* is an input of the model, held in the variable see
seeWins(move) == move \notin see

\* HistoryTable: the countermove slot of entry(prevMove) and the scores;
\* a score depends on the moving piece and the destination (HistoryMove)
MaxHistTables == 1
HistoryUnit == 1000
NullHistory == [present |-> FALSE, countermove |-> NullMove, table |-> 0]
entryScore(h, piece, dst) == HistoryUnit * (((dst * (h.table + 1) + piece) % 5) - 2)
contScore(h, piece, dst) == HistoryUnit * ((dst + h.table) % 2)
contPrevScore(h, piece, dst) == (0 - HistoryUnit) * ((squareRank(dst) + h.table) % 3)

----------------------------------------------------------------------------
(* MoveGenerator (movegen.h)                                               *)

StageStart == 0
StageHash == 1
StageGoodNoisy == 2
StageKiller == 3
StageCountermove == 4
StageQuiet == 5
StageBadNoisy == 6
StageEnd == 7

\* knight, bishop, rook, queen
PromoScores == <<1, -2, -1, 2>>
\* v.score < -4 * 2000 * 2000 ends the good noisy moves
GoodNoisyThreshold == (0 - 4) * 2000 * 2000
QuietEndMarker == 9999

\* std::stable_sort, descending by score: equal scores keep their order
RECURSIVE insertSorted(_, _)
insertSorted(sorted, x) ==
    IF sorted = <<>> THEN <<x>>
    ELSE IF x.score > Head(sorted).score THEN <<x>> \o sorted
    ELSE <<Head(sorted)>> \o insertSorted(Tail(sorted), x)
RECURSIVE stableSortDesc(_)
stableSortDesc(s) ==
    IF s = <<>> THEN <<>>
    ELSE insertSorted(stableSortDesc(SubSeq(s, 1, Len(s) - 1)), s[Len(s)])

noisyScore(p, move) ==
    LET boards == boardsOf(p)
        srcValue == pieceValue(pieceAt(boards, move.src)).midgame
        dstValue == IF move.type = "EnPassant" THEN PieceValues[Pawn].midgame
                    ELSE pieceValue(pieceAt(boards, move.dst)).midgame
    IN (dstValue - srcValue) * 2000 + dstValue
       + (IF move.type = "Promotion" THEN PromoScores[targetIdx(move) + 1] * 2000 * 2000 ELSE 0)
       - (IF dstValue > 0 /\ ~seeWins(move) THEN 8 * 2000 * 2000 ELSE 0)

\* scores m_moves[i] for i >= from (0-based)
scoreNoisy(moves, from, p) ==
    [i \in 1 .. Len(moves) |->
        IF i > from THEN [moves[i] EXCEPT !.score = noisyScore(p, moves[i].move)] ELSE moves[i]]

quietScore(p, sm) ==
    LET piece == pieceAt(boardsOf(p), sm.move.src)
        dst == sm.move.dst
        s0 == IF m_history.present
              THEN entryScore(m_history, piece, dst)
                   + (IF m_prevMove THEN contScore(m_history, piece, dst) ELSE 0)
                   + (IF m_prevPrevMove THEN contPrevScore(m_history, piece, dst) ELSE 0)
              ELSE sm.score
    IN s0 + (IF sm.move.type = "Promotion" THEN PromoScores[targetIdx(sm.move) + 1] * 2000 ELSE 0)

scoreQuiet(moves, from, p) ==
    [i \in 1 .. Len(moves) |->
        IF i > from THEN [moves[i] EXCEPT !.score = quietScore(p, moves[i])] ELSE moves[i]]

\* the generator's own fields as one record
genState ==
    [stage |-> m_stage, idx |-> m_idx, moves |-> m_moves, noisyEnd |-> m_noisyEnd,
     goodNoisyEnd |-> m_goodNoisyEnd, countermove |-> m_countermove]

firstBelow(moves, from) ==
    LET below == {i \in (from + 1) .. Len(moves) : moves[i].score < GoodNoisyThreshold}
    IN IF below = {} THEN Len(moves) ELSE (CHOOSE i \in below : \A j \in below : i <= j) - 1

\* std::stable_sort over m_moves[m_idx ..]
sortFrom(moves, from) ==
    SubSeq(moves, 1, from) \o stableSortDesc(SubSeq(moves, from + 1, Len(moves)))

\* m_noisyEnd and m_goodNoisyEnd once the list is sorted
noisyEnds(g, sorted) ==
    [g EXCEPT !.moves = sorted, !.noisyEnd = Len(sorted), !.goodNoisyEnd = firstBelow(sorted, g.idx)]

genNoisy(g, p) ==
    noisyEnds(g, sortFrom(scoreNoisy(generateNoisy(g.moves, p), g.idx, p), g.idx))

genQuiet(g, p) ==
    [g EXCEPT !.moves = scoreQuiet(generateQuiet(g.moves, p), g.noisyEnd, p),
              !.goodNoisyEnd = QuietEndMarker]

\* findNext without the scan for the best remaining score
findNextFront(g) ==
    [gen |-> [g EXCEPT !.idx = g.idx + 1], sm |-> g.moves[g.idx + 1]]

\* the generator after findNext, and the move it returns
findNext(g) ==
    IF g.stage = StageGoodNoisy
    THEN [gen |-> [g EXCEPT !.idx = g.idx + 1], sm |-> g.moves[g.idx + 1]]
    ELSE LET n == Len(g.moves)
             \* the first index holding the largest score (strict > in the scan)
             best == CHOOSE i \in (g.idx + 1) .. n :
                        /\ \A j \in (g.idx + 1) .. n : g.moves[j].score <= g.moves[i].score
                        /\ \A j \in (g.idx + 1) .. (i - 1) : g.moves[j].score < g.moves[i].score
             swapped == [g.moves EXCEPT ![g.idx + 1] = g.moves[best], ![best] = g.moves[g.idx + 1]]
         IN [gen |-> [g EXCEPT !.moves = swapped, !.idx = g.idx + 1], sm |-> swapped[g.idx + 1]]

\* the stage loop's condition without the end of the good noisy moves
advanceNeededAtEndOnly(g) == g.idx = Len(g.moves)

\* while (m_idx == m_moves.size() || m_idx == m_goodNoisyEnd)
advanceNeeded(g) == g.idx = Len(g.moves) \/ g.idx = g.goodNoisyEnd

hashStageYields(p) == m_hashMove # NullMove

\* a Killer stage that never returns the killer
killerStageSkipped(p) == FALSE

killerStageYields(p) ==
    /\ m_killer # NullMove
    /\ m_killer # m_hashMove
    /\ isPseudolegal(p, m_killer)

countermoveLoaded == m_history.present /\ m_prevMove

countermoveStageYields(p, countermove) ==
    /\ countermove # NullMove
    /\ countermove # m_hashMove
    /\ countermove # m_killer
    /\ isPseudolegal(p, countermove)

emitted(g, move) ==
    /\ move # m_hashMove
    /\ move # m_killer
    /\ move # g.countermove

\* what one pass of the loops of next() leaves: the generator, whether
\* next() returns here, and the move it returns
yield(g, move, origin, score) ==
    [gen |-> g, done |-> TRUE, move |-> move, origin |-> origin, score |-> score]

continue(g) ==
    [gen |-> g, done |-> FALSE, move |-> NullMove, origin |-> "none", score |-> 0]

\* the body of the inner loop: ++m_stage; switch (m_stage)
advanceStage(g, p) ==
    LET g1 == [g EXCEPT !.stage = g.stage + 1]
    IN CASE g1.stage = StageHash ->
                IF hashStageYields(p)
                THEN yield(g1, m_hashMove, "hash", 0)
                ELSE continue(g1)
          [] g1.stage = StageGoodNoisy ->
                LET g2 == genNoisy(g1, p)
                IN continue(IF Quiescence THEN [g2 EXCEPT !.stage = StageEnd] ELSE g2)
          [] g1.stage = StageKiller ->
                IF killerStageYields(p)
                THEN yield(g1, m_killer, "killer", 0)
                ELSE continue(g1)
          [] g1.stage = StageCountermove ->
                IF countermoveLoaded
                THEN LET g2 == [g1 EXCEPT !.countermove = m_history.countermove]
                     IN IF countermoveStageYields(p, g2.countermove)
                        THEN yield(g2, g2.countermove, "countermove", 0)
                        ELSE continue(g2)
                ELSE continue(g1)
          [] g1.stage = StageQuiet -> continue(genQuiet(g1, p))
          [] g1.stage = StageBadNoisy -> continue(g1)
          [] OTHER -> yield(g1, NullMove, "end", 0)

\* after the inner loop: findNext() and the comparison with the hash
\* move, the killer and m_countermove
selectMove(g, p) ==
    LET f == findNext(g)
    IN IF emitted(f.gen, f.sm.move)
       THEN yield(f.gen, f.sm.move,
                  IF f.sm.move \in moveSet(generateNoisy(<<>>, p)) THEN "noisy" ELSE "quiet",
                  f.sm.score)
       ELSE continue(f.gen)

\* MoveGenerator::next: the generator after the call, the move returned
\* and where it came from
RECURSIVE next(_, _)
afterPass(r, p) == IF r.done THEN r ELSE next(r.gen, p)

next(g, p) == afterPass(IF advanceNeeded(g) THEN advanceStage(g, p) ELSE selectMove(g, p), p)


----------------------------------------------------------------------------
(* Driving one MoveGenerator over a position                               *)

MaxExtraCalls == 2

\* white Ka1 and pawns a2 b2 against black pawns a3 b4, knight c3 and Kh8:
\* two captures, one pawn push and one king move
PositionA ==
    positionFrom(<<<<wK, A1>>, <<wP, toSquare(1, 0)>>, <<wP, toSquare(1, 1)>>,
                   <<bP, toSquare(2, 0)>>, <<bN, toSquare(2, 2)>>, <<bP, toSquare(3, 1)>>,
                   <<bK, H8>>>>,
                 FALSE, NoCastlingRooks, SquareNone, 0, 1)

\* black to move: Kh8 and pawn h7 facing the white pawn h6, and a black
\* pawn on b2 about to promote; white Ke1
PositionB ==
    positionFrom(<<<<bK, H8>>, <<bP, toSquare(6, 7)>>, <<wP, toSquare(5, 7)>>,
                   <<bP, toSquare(1, 1)>>, <<wK, toSquare(0, 4)>>>>,
                 TRUE, NoCastlingRooks, SquareNone, 0, 1)

\* white Ka1 next to the black knights b1 and a2, which the rook h1 and the
\* pawn b3 defend: two king captures with the same score, one king move
PositionC ==
    positionFrom(<<<<wK, A1>>, <<bN, toSquare(0, 1)>>, <<bN, toSquare(1, 0)>>,
                   <<bR, H1>>, <<bP, toSquare(2, 1)>>, <<bK, H8>>>>,
                 FALSE, NoCastlingRooks, SquareNone, 0, 1)

GeneratorPositions == {PositionA, PositionB, PositionC}

\* a move of a piece that is not on the board
StrayMove == moveStandard(toSquare(3, 3), toSquare(4, 3))

\* what a caller may hand over as hash move, killer or stored countermove
candidateMoves(p) ==
    moveSet(generateNoisy(<<>>, p)) \cup moveSet(generateQuiet(<<>>, p)) \cup {NullMove, StrayMove}

captures(p) == {m \in moveSet(generateNoisy(<<>>, p)) : captureTarget(p, m) # PieceNone}

Histories(moves) ==
    {NullHistory}
    \cup {[present |-> TRUE, countermove |-> c, table |-> t] :
             c \in moves, t \in 0 .. (MaxHistTables - 1)}

\* the state after MoveGenerator's constructor
Init ==
    /\ RestInit
    /\ pos \in GeneratorPositions
    /\ g_opts = [chess960 |-> FALSE, underpromotions |-> FALSE]
    /\ Quiescence \in BOOLEAN
    /\ LET moves == candidateMoves(pos)
       IN /\ m_hashMove \in moves
          /\ m_killer \in moves
          /\ m_history \in Histories(moves)
    /\ m_prevMove \in BOOLEAN
    /\ m_prevPrevMove = m_prevMove
    /\ ~m_history.present => ~m_prevMove
    /\ ~m_prevMove => m_history.countermove = NullMove
    /\ see \in SUBSET captures(pos)
    /\ m_moves = <<>>
    /\ m_stage = StageStart
    /\ m_idx = 0
    /\ m_noisyEnd = 0
    /\ m_goodNoisyEnd = 0
    /\ m_countermove = NullMove
    /\ returned = <<>>
    /\ setup = [scenario |-> 0, included |-> {}, ep |-> FALSE]
    /\ genDone = FALSE
    /\ noisyList = <<>>
    /\ quietList = <<>>
    /\ allList = <<>>
    /\ saved = <<>>
    /\ lastOp = [op |-> "init"]

\* the members of the generator and the caller's record of the move
\* after a call that ends as r
callEnds(r) ==
    /\ m_stage' = r.gen.stage
    /\ m_idx' = r.gen.idx
    /\ m_moves' = r.gen.moves
    /\ m_noisyEnd' = r.gen.noisyEnd
    /\ m_goodNoisyEnd' = r.gen.goodNoisyEnd
    /\ m_countermove' = r.gen.countermove
    /\ returned' = Append(returned, [move |-> r.move, origin |-> r.origin,
                                     score |-> r.score, stage |-> r.gen.stage])

\* one call of MoveGenerator::next
NextCall ==
    /\ m_stage < StageEnd + MaxExtraCalls
    /\ callEnds(next(genState, pos))
    /\ UNCHANGED <<pos, g_opts, Quiescence, m_hashMove, m_killer, m_prevMove,
                   m_prevPrevMove, m_history, see, genVars, posVars, restVars>>

Next == NextCall

Spec == Init /\ [][Next]_vars


----------------------------------------------------------------------------
(* Properties of MoveGenerator::next                                       *)

\* the calls made so far that returned a move, not the terminating NullMove
yielded == {i \in 1 .. Len(returned) : returned[i].origin # "end"}
fromList(i) == returned[i].origin \in {"noisy", "quiet"}
goodNoisy(i) == returned[i].origin = "noisy" /\ returned[i].score >= GoodNoisyThreshold
badNoisy(i) == returned[i].origin = "noisy" /\ returned[i].score < GoodNoisyThreshold

\* C1: the moves returned by successive next() calls before the terminating
\* NullMove contain no move twice and no NullMove
C1_NoMoveTwice ==
    /\ \A i \in yielded : returned[i].move # NullMove
    /\ \A i, j \in yielded : i # j => returned[i].move # returned[j].move

\* hash move 1, good noisy 2, killer 3, countermove 4, quiet 5, bad noisy 6
groupOf(i) ==
    CASE returned[i].origin = "hash" -> 1
      [] goodNoisy(i) -> 2
      [] returned[i].origin = "killer" -> 3
      [] returned[i].origin = "countermove" -> 4
      [] returned[i].origin = "quiet" -> 5
      [] badNoisy(i) -> 6
      [] OTHER -> 7

\* C2: in the non-quiescence generator the stage never decreases from one
\* next() call to the following one, and no move of a later group (hash,
\* good noisy, killer, countermove, quiet, bad noisy) comes out before a
\* move of an earlier group
C2_StagedOrder ==
    ~Quiescence =>
        /\ \A i \in 1 .. Len(returned) :
               /\ returned[i].stage >= (IF i = 1 THEN StageStart ELSE returned[i - 1].stage)
               /\ i = Len(returned) => returned[i].stage = m_stage
        /\ \A i, j \in 1 .. Len(returned) : i < j => groupOf(i) <= groupOf(j)

\* every group has produced a move and the generator has terminated
C2_Witness ==
    /\ ~Quiescence
    /\ \A grp \in 1 .. 7 : \E i \in 1 .. Len(returned) : groupOf(i) = grp

\* C3: no move returned from a generated list (good noisy, quiet, bad noisy)
\* equals the hash move, the killer, or the countermove stored in the
\* history entry of the previous move
C3_ListMovesFiltered ==
    \A i \in yielded :
        fromList(i) =>
            /\ returned[i].move # m_hashMove
            /\ returned[i].move # m_killer
            /\ countermoveLoaded => returned[i].move # m_history.countermove

\* C4: the hash move is returned in the Hash stage only if it is not the
\* null move and isPseudolegal holds for it in the current position
C4_HashMovePseudolegal ==
    \A i \in yielded :
        returned[i].origin = "hash" =>
            /\ m_hashMove # NullMove
            /\ isPseudolegal(pos, m_hashMove)

\* C5: the quiescence generator returns only the hash move (from the Hash
\* stage) and noisy moves scored at or above the good threshold, then
\* NullMove for ever; no move comes from the killer or countermove stage,
\* from the quiet list, or from the noisy moves below the threshold, and no
\* list move is the killer
C5_QuiescenceOnlyGoodNoisy ==
    Quiescence =>
        /\ \A i \in 1 .. Len(returned) :
               /\ \/ returned[i].origin = "hash" /\ returned[i].move = m_hashMove /\ i = 1
                  \/ goodNoisy(i) /\ returned[i].move # m_killer
                  \/ returned[i].origin = "end" /\ returned[i].move = NullMove
               /\ returned[i].stage \in {StageHash} \cup (StageEnd .. (StageEnd + MaxExtraCalls))
        /\ \A i, j \in 1 .. Len(returned) :
               i < j /\ returned[i].origin = "end" => returned[j].origin = "end"
        /\ moveSet(m_moves) \subseteq moveSet(generateNoisy(<<>>, pos))

\* the quiescence generator has returned the hash move and a good noisy move
\* and has terminated although a noisy move below the threshold, quiet moves
\* and a pseudolegal killer were there to return
C5_Witness ==
    /\ Quiescence
    /\ \E i, j, k \in 1 .. Len(returned) :
           /\ returned[i].origin = "hash"
           /\ goodNoisy(j)
           /\ returned[k].origin = "end"
    /\ m_idx < Len(m_moves)
    /\ m_moves[m_idx + 1].score < GoodNoisyThreshold
    /\ generateQuiet(<<>>, pos) # <<>>
    /\ killerStageYields(pos)
    /\ countermoveLoaded /\ countermoveStageYields(pos, m_history.countermove)


----------------------------------------------------------------------------
(* Driving applyMove, popMove and isDrawn over short lines of legal moves  *)

MaxPly == 3

\* the search's legality test: the move is applied and the mover's king
\* must not be attacked afterwards
legalMoves(p) ==
    {m \in moveSet(generateAll(<<>>, p)) :
        LET q == applyMove(p, m) IN ~isAttacked(q, king(q, toMove(p)), toMove(q))}

\* kings behind a blocked pawn pair: only king moves
ShufflePosition ==
    positionFrom(<<<<wK, A1>>, <<bK, H8>>, <<wP, toSquare(3, 3)>>, <<bP, toSquare(4, 3)>>>>,
                 FALSE, NoCastlingRooks, SquareNone, 0, 1)

\* white Ke1 Rh1 may castle short, black Ke8 Ra8 may castle long; the pawn
\* pairs on the a-, e- and h-files block each other
CastlePosition ==
    positionFrom(<<<<wK, toSquare(0, 4)>>, <<wR, H1>>, <<bK, toSquare(7, 4)>>, <<bR, A8>>,
                   <<wP, toSquare(1, 4)>>, <<bP, toSquare(2, 4)>>,
                   <<wP, toSquare(5, 4)>>, <<bP, toSquare(6, 4)>>,
                   <<wP, toSquare(1, 7)>>, <<bP, toSquare(2, 7)>>,
                   <<wP, toSquare(5, 0)>>, <<bP, toSquare(6, 0)>>>>,
                 FALSE, [NoCastlingRooks EXCEPT !.whiteShort = H1, !.blackLong = A8],
                 SquareNone, 3, 10)

\* white pawn e2 may push twice past the black pawn d4; black pawn c7 may
\* push twice past the white pawn b5
EnPassantPosition ==
    positionFrom(<<<<wK, A1>>, <<bK, H8>>, <<wP, toSquare(1, 4)>>, <<bP, toSquare(3, 3)>>,
                   <<bP, toSquare(6, 2)>>, <<wP, toSquare(4, 1)>>>>,
                 FALSE, NoCastlingRooks, SquareNone, 7, 20)

\* white pawn b7 promotes on b8 or by taking the knight a8, black pawn c2
\* promotes on c1; the kings stand behind the blocked h-pawns
PromotionPosition ==
    positionFrom(<<<<wK, H1>>, <<wP, toSquare(1, 7)>>, <<bP, toSquare(2, 7)>>,
                   <<bK, H8>>, <<bP, toSquare(6, 7)>>, <<wP, toSquare(5, 7)>>,
                   <<wP, toSquare(6, 1)>>, <<bN, A8>>, <<bP, toSquare(1, 2)>>>>,
                 FALSE, NoCastlingRooks, SquareNone, 0, 30)

LinePositions ==
    {ShufflePosition, CastlePosition, EnPassantPosition, PromotionPosition}

InitPos ==
    /\ RestInit
    /\ pos \in LinePositions
    /\ g_opts = [chess960 |-> FALSE, underpromotions |-> FALSE]
    /\ saved = <<>>
    /\ lastOp = [op |-> "init"]
    /\ Quiescence = FALSE
    /\ m_hashMove = NullMove
    /\ m_killer = NullMove
    /\ m_prevMove = FALSE
    /\ m_prevPrevMove = FALSE
    /\ m_history = NullHistory
    /\ see = {}
    /\ m_moves = <<>>
    /\ m_stage = StageStart
    /\ m_idx = 0
    /\ m_noisyEnd = 0
    /\ m_goodNoisyEnd = 0
    /\ m_countermove = NullMove
    /\ returned = <<>>
    /\ setup = [scenario |-> 0, included |-> {}, ep |-> FALSE]
    /\ genDone = FALSE
    /\ noisyList = <<>>
    /\ quietList = <<>>
    /\ allList = <<>>

\* pos.applyMove(m) for a legal move m; saved keeps a copy of the position
\* as it was before the call
ApplyMove ==
    /\ Len(saved) < MaxPly
    /\ \E m \in legalMoves(pos) :
           /\ pos' = applyMove(pos, m)
           /\ lastOp' = [op |-> "applyMove", move |-> m]
    /\ saved' = Append(saved, pos)
    /\ UNCHANGED <<g_opts, mgVars, genVars, restVars>>

\* pos.popMove() undoing the last applyMove
PopMove ==
    /\ saved # <<>>
    /\ pos' = popMove(pos)
    /\ lastOp' = [op |-> "popMove", move |-> currState(pos).lastMove,
                  before |-> saved[Len(saved)]]
    /\ saved' = SubSeq(saved, 1, Len(saved) - 1)
    /\ UNCHANGED <<g_opts, mgVars, genVars, restVars>>

\* pos.isDrawn(threefold)
IsDrawn ==
    /\ \E threefold \in BOOLEAN :
           lastOp' = [op |-> "isDrawn", threefold |-> threefold,
                      result |-> isDrawn(pos, threefold)]
    /\ UNCHANGED <<pos, saved, g_opts, mgVars, genVars, restVars>>

NextPos == ApplyMove \/ PopMove \/ IsDrawn

SpecPos == InitPos /\ [][NextPos]_vars

----------------------------------------------------------------------------
(* Properties of applyMove / popMove and isDrawn                           *)

\* C6: applyMove(m) followed by popMove restores boards, key, pawn key,
\* material, phase, checkers, king squares, castling rooks, en-passant
\* square, halfmove and fullmove: the position deepEquals the one before
C6_ApplyPopRestores ==
    lastOp.op = "popMove" =>
        /\ deepEquals(pos, lastOp.before)
        /\ currState(pos) = currState(lastOp.before)
        /\ pos.m_blackToMove = lastOp.before.m_blackToMove
        /\ pos.m_fullmove = lastOp.before.m_fullmove

\* a move that changed boards, keys, material, phase, castling rooks,
\* en-passant square, halfmove and fullmove has been undone
C6_Witness ==
    /\ lastOp.op = "popMove"
    /\ lastOp.move.type \in {"Promotion", "Castling", "EnPassant"}
    /\ LET q == applyMove(lastOp.before, lastOp.move)
       IN /\ ~deepEquals(q, lastOp.before)
          /\ key(q) # key(pos)
          /\ q.m_fullmove # pos.m_fullmove \/ currState(q).material # currState(pos).material
    /\ deepEquals(pos, lastOp.before)

\* the times the current position's key occurs among the positions of the
\* line played so far, the current position counted once
keyOccurrences ==
    Cardinality({i \in 1 .. Len(pos.m_states) : pos.m_states[i].key = key(pos)})

\* C10: with halfmove < 100 (and mating material on the board), isDrawn
\* answers true exactly when the current key has occurred at least 3 times
\* (threefold) or at least 2 times (otherwise), the current position
\* counted once; isDrawn(false) is false for a position not seen before
C10_RepetitionCount ==
    lastOp.op = "isDrawn" /\ halfmove(pos) < 100 /\ ~insufficientMaterial(pos) =>
        (lastOp.result <=> keyOccurrences >= (IF lastOp.threefold THEN 3 ELSE 2))

----------------------------------------------------------------------------
(* Material draws: isDrawn and isLikelyDrawn over positions with the two   *)
(* kings and a few more pieces, as a FEN would give them                   *)

MaxMaterial == 3

\* the pieces a position may hold besides the kings on e1 and e8; c1 and f8
\* are dark squares, f1 and c8 light ones
MaterialPool ==
    <<<<wN, toSquare(0, 1)>>, <<wN, toSquare(0, 6)>>, <<wN, toSquare(2, 2)>>,
      <<wB, toSquare(0, 2)>>, <<wB, toSquare(0, 5)>>, <<wB, toSquare(2, 7)>>,
      <<bN, toSquare(7, 1)>>, <<bN, toSquare(7, 6)>>,
      <<bB, toSquare(7, 2)>>, <<bB, toSquare(7, 5)>>,
      <<wP, toSquare(1, 4)>>, <<bR, toSquare(7, 0)>>, <<wQ, toSquare(0, 3)>>>>

materialPosition(extra, hm) ==
    positionFrom(<<<<wK, toSquare(0, 4)>>, <<bK, toSquare(7, 4)>>>>
                     \o [i \in 1 .. Cardinality(extra) |-> MaterialPool[setToSeq(extra)[i]]],
                 FALSE, NoCastlingRooks, SquareNone, hm, 1)

InitMat ==
    /\ RestInit
    /\ \E extra \in SUBSET (1 .. Len(MaterialPool)), hm \in {0, 100} :
           /\ Cardinality(extra) <= MaxMaterial
           /\ pos = materialPosition(extra, hm)
    /\ g_opts = [chess960 |-> FALSE, underpromotions |-> FALSE]
    /\ saved = <<>>
    /\ lastOp = [op |-> "init"]
    /\ Quiescence = FALSE
    /\ m_hashMove = NullMove
    /\ m_killer = NullMove
    /\ m_prevMove = FALSE
    /\ m_prevPrevMove = FALSE
    /\ m_history = NullHistory
    /\ see = {}
    /\ m_moves = <<>>
    /\ m_stage = StageStart
    /\ m_idx = 0
    /\ m_noisyEnd = 0
    /\ m_goodNoisyEnd = 0
    /\ m_countermove = NullMove
    /\ returned = <<>>
    /\ setup = [scenario |-> 0, included |-> {}, ep |-> FALSE]
    /\ genDone = FALSE
    /\ noisyList = <<>>
    /\ quietList = <<>>
    /\ allList = <<>>

\* pos.isLikelyDrawn()
IsLikelyDrawn ==
    /\ lastOp' = [op |-> "isLikelyDrawn", result |-> isLikelyDrawn(pos)]
    /\ UNCHANGED <<pos, saved, g_opts, mgVars, genVars, restVars>>

NextMat == IsDrawn \/ IsLikelyDrawn

SpecMat == InitMat /\ [][NextMat]_vars

\* the material on the board, counted piece by piece
countOf(piece) == Cardinality({s \in Squares : pieceAt(boardsOf(pos), s) = piece})
heavyOrPawn ==
    \E s \in Squares : basePiece(pieceAt(boardsOf(pos), s)) \in {Pawn, Rook, Queen}
minorCount == countOf(wN) + countOf(wB) + countOf(bN) + countOf(bB)
bishopOn(piece) == CHOOSE s \in Squares : pieceAt(boardsOf(pos), s) = piece
squareShade(s) == (squareRank(s) + squareFile(s)) % 2
oneBishopEach == minorCount = 2 /\ countOf(wB) = 1 /\ countOf(bB) = 1
oppositeBishops == oneBishopEach /\ squareShade(bishopOn(wB)) # squareShade(bishopOn(bB))
deadMaterial == ~heavyOrPawn /\ (minorCount <= 1 \/ oppositeBishops)

\* C11: with halfmove < 100 and the repetition scan finding nothing,
\* isDrawn is true exactly for KK, king and one minor v king, and KBKB with
\* the bishops on squares of opposite colour; never with a pawn, rook or
\* queen on the board
C11_InsufficientMaterial ==
    (lastOp.op = "isDrawn" /\ halfmove(pos) < 100 /\ ~repetitionFound(pos, lastOp.threefold)) =>
        /\ lastOp.result <=> deadMaterial
        /\ heavyOrPawn => ~lastOp.result

\* isDrawn has said yes to KBKB with bishops of opposite colour
C11_Witness ==
    /\ lastOp.op = "isDrawn" /\ halfmove(pos) < 100
    /\ lastOp.result /\ oppositeBishops

likelyDrawnMaterial ==
    \/ deadMaterial
    \/ /\ ~heavyOrPawn
       /\ \/ minorCount = 2 /\ (countOf(wN) = 2 \/ countOf(bN) = 2)
          \/ minorCount = 2 /\ countOf(wN) + countOf(wB) = 1
          \/ /\ minorCount = 3 /\ countOf(wN) + countOf(bN) = 0
             /\ countOf(wB) \in {1, 2}

\* C12: isLikelyDrawn is true exactly for material without pawns, rooks
\* and queens that is KK, KNK, KBK, KBKB, KNNK, KNKN, KNKB or KBBKB, and
\* false for every other material
C12_LikelyDrawnMaterial ==
    lastOp.op = "isLikelyDrawn" => (lastOp.result <=> likelyDrawnMaterial)

----------------------------------------------------------------------------
(* The UCI front end (uci.cpp): command lines are sequences of tokens. A   *)
(* token is a record: text is the token, and a token that is a decimal     *)
(* numeral has text "#" and carries its value in num.                      *)

tok(text) == [text |-> text, num |-> 0]
numTok(n) == [text |-> "#", num |-> n]

\* std::tolower over the option names used below
LowerTable ==
    [t \in {"Hash", "Clear", "Threads", "Move", "Overhead", "UCI_Chess960", "Underpromotions"} |->
        CASE t = "Hash" -> "hash" [] t = "Clear" -> "clear" [] t = "Threads" -> "threads"
          [] t = "Move" -> "move" [] t = "Overhead" -> "overhead"
          [] t = "UCI_Chess960" -> "uci_chess960" [] OTHER -> "underpromotions"]
toLower(text) == IF text \in DOMAIN LowerTable THEN LowerTable[text] ELSE text

\* util::tryParseU32: a single numeral that is not negative
tryParseU32(valueStr) ==
    IF Len(valueStr) = 1 /\ valueStr[1].text = "#" /\ valueStr[1].num >= 0
    THEN Some(valueStr[1].num) ELSE NoValue
\* util::tryParseSize: the same for usize
tryParseSize(valueStr) == tryParseU32(valueStr)
\* util::tryParseI32: a single numeral
tryParseI32(valueStr) ==
    IF Len(valueStr) = 1 /\ valueStr[1].text = "#" THEN Some(valueStr[1].num) ELSE NoValue
tryParseBool(valueStr) ==
    IF Len(valueStr) = 1 /\ valueStr[1].text \in {"true", "false"}
    THEN Some(valueStr[1].text = "true") ELSE NoValue

\* the ranges the options are documented with (small stand-ins for the
\* values of ttable.h, search.h and limit/time.h)
HashSizeRange == [min |-> 1, max |-> 32]
ThreadCountRange == [min |-> 1, max |-> 3]
MoveOverheadRange == [min |-> 0, max |-> 20]
clamp(range, v) == IF v < range.min THEN range.min ELSE IF v > range.max THEN range.max ELSE v
inRange(range, v) == range.min <= v /\ v <= range.max

\* search::Searcher
searching(sr) == sr.searching
setHashSize(sr, size) == [sr EXCEPT !.hashSize = size, !.tt = "empty"]
clearHash(sr) == [sr EXCEPT !.tt = "empty"]
setThreads(sr, threads) == [sr EXCEPT !.threads = threads]
startSearch(sr) == [sr EXCEPT !.searching = TRUE, !.tt = "filled"]
stop(sr) == [sr EXCEPT !.searching = FALSE]

\* the members of the handler, s_opts and m_pos
handlerState ==
    [m_searcher |-> m_searcher, m_hashSize |-> m_hashSize,
     m_newSearcherHashSize |-> m_newSearcherHashSize,
     m_moveOverhead |-> m_moveOverhead, s_opts |-> g_opts, m_pos |-> pos]

\* the first index from i on (0-based) at which the token is word, or limit
RECURSIVE scanTo(_, _, _, _)
scanTo(tokens, i, limit, word) ==
    IF i < limit /\ tokens[i + 1].text # word THEN scanTo(tokens, i + 1, limit, word) ELSE i

\* tokens[from .. to - 1], 0-based
slice(tokens, from, to) == IF from < to THEN SubSeq(tokens, from + 1, to) ELSE <<>>

\* the branches of handleSetoption on the lower-case name
applyOption(h, nameStr, valueStr) ==
    LET valueEmpty == valueStr = <<>>
    IN CASE nameStr = <<"hash">> ->
              IF ~valueEmpty /\ tryParseSize(valueStr).has
              THEN LET size == Some(clamp(HashSizeRange, tryParseSize(valueStr).value))
                   IN [h EXCEPT !.m_newSearcherHashSize = size, !.m_hashSize = size]
              ELSE h
         [] nameStr = <<"clear", "hash">> ->
              \* "still searching" is written, and the handler goes on
              IF h.m_hashSize.has
              THEN [h EXCEPT !.m_searcher = setHashSize(h.m_searcher, h.m_hashSize.value),
                             !.m_hashSize = NoValue]
              ELSE [h EXCEPT !.m_searcher = clearHash(h.m_searcher)]
         [] nameStr = <<"threads">> ->
              IF ~valueEmpty /\ tryParseU32(valueStr).has
              THEN [h EXCEPT !.m_searcher =
                        setThreads(h.m_searcher, clamp(ThreadCountRange, tryParseU32(valueStr).value))]
              ELSE h
         [] nameStr = <<"uci_chess960">> ->
              IF ~valueEmpty /\ tryParseBool(valueStr).has
              THEN [h EXCEPT !.s_opts.chess960 = tryParseBool(valueStr).value]
              ELSE h
         [] nameStr = <<"underpromotions">> ->
              IF ~valueEmpty /\ tryParseBool(valueStr).has
              THEN [h EXCEPT !.s_opts.underpromotions = tryParseBool(valueStr).value]
              ELSE h
         [] nameStr = <<"move", "overhead">> ->
              IF ~valueEmpty /\ tryParseI32(valueStr).has
              THEN [h EXCEPT !.m_moveOverhead = clamp(MoveOverheadRange, tryParseI32(valueStr).value)]
              ELSE h
         [] OTHER -> h

\* UciHandler::handleSetoption
handleSetoption(h, tokens) ==
    LET size == Len(tokens)
        nameAt == scanTo(tokens, 1, size - 1, "name") + 1
        nameEnd == scanTo(tokens, nameAt, size, "value")
        valueAt == nameEnd + 1
        name == slice(tokens, nameAt, nameEnd)
    IN IF nameAt = size THEN h
       ELSE IF valueAt = size THEN h
       ELSE IF name = <<>> THEN h
       ELSE applyOption(h, [i \in 1 .. Len(name) |-> toLower(name[i].text)],
                        slice(tokens, valueAt, size))

\* UciHandler::handleStop
handleStop(h) ==
    IF ~searching(h.m_searcher) THEN h ELSE [h EXCEPT !.m_searcher = stop(h.m_searcher)]

\* handleGo without the reset of m_hashSize
handleGoKeepsPending(h, depth) ==
    IF searching(h.m_searcher) THEN h
    ELSE LET h1 == IF h.m_hashSize.has
                   THEN [h EXCEPT !.m_searcher = setHashSize(h.m_searcher, h.m_hashSize.value)]
                   ELSE h
         IN IF depth = 0 THEN h1 ELSE [h1 EXCEPT !.m_searcher = startSearch(h1.m_searcher)]

\* UciHandler::handleGo with the depth given (MaxDepth when there is none)
handleGo(h, depth) ==
    IF searching(h.m_searcher) THEN h
    ELSE LET h1 == IF h.m_hashSize.has
                   THEN [h EXCEPT !.m_searcher = setHashSize(h.m_searcher, h.m_hashSize.value),
                                  !.m_hashSize = NoValue]
                   ELSE h
         IN IF depth = 0 THEN h1 ELSE [h1 EXCEPT !.m_searcher = startSearch(h1.m_searcher)]

\* UciHandler::handleBench: bench::run leaves the searcher idle with a
\* filled table. The hash size goes through static_cast<i32> and back to
\* usize, which leaves a value below 2^31 (every value given here) as it is
handleBench(h, tokens) ==
    IF searching(h.m_searcher) THEN h
    ELSE IF Len(tokens) > 1 /\ ~tryParseU32(<<tokens[2]>>).has THEN h
    ELSE IF Len(tokens) > 2 /\ ~tryParseU32(<<tokens[3]>>).has THEN h
    ELSE IF Len(tokens) > 3 /\ ~tryParseSize(<<tokens[4]>>).has THEN h
    ELSE LET hash == IF Len(tokens) > 3
                     THEN tryParseSize(<<tokens[4]>>).value
                     ELSE 16
         IN [h EXCEPT !.m_searcher = [setHashSize(h.m_searcher, hash) EXCEPT !.tt = "filled"]]


\* the characters of the strings used as move tokens
CharsOf ==
    [t \in {"e2e4", "e7e5", "a1b1", "zz"} |->
        CASE t = "e2e4" -> <<"e", "2", "e", "4">>
          [] t = "e7e5" -> <<"e", "7", "e", "5">>
          [] t = "a1b1" -> <<"a", "1", "b", "1">>
          [] OTHER -> <<"z", "z">>]
FileChars == <<"a", "b", "c", "d", "e", "f", "g", "h">>
RankChars == <<"1", "2", "3", "4", "5", "6", "7", "8">>
PromoChars == [c \in {"n", "b", "r", "q"} |->
                  CASE c = "n" -> Knight [] c = "b" -> Bishop [] c = "r" -> Rook [] OTHER -> Queen]
indexIn(chars, c) == IF \E i \in DOMAIN chars : chars[i] = c
                     THEN (CHOOSE i \in DOMAIN chars : chars[i] = c) - 1 ELSE 8

\* squareFromString: Square::None unless a file letter and a rank digit
squareFromString(str) ==
    IF Len(str) = 2 /\ indexIn(FileChars, str[1]) < 8 /\ indexIn(RankChars, str[2]) < 8
    THEN toSquare(indexIn(RankChars, str[2]), indexIn(FileChars, str[1]))
    ELSE SquareNone

\* Position::moveFromUci, g_opts.chess960 being chess960: the null move for
\* a string that is no move
moveFromUci(p, str, chess960) ==
    IF Len(str) < 4 \/ Len(str) > 5 THEN NullMove
    ELSE LET src == squareFromString(SubSeq(str, 1, 2))
             dst == squareFromString(SubSeq(str, 3, 4))
         IN IF src = SquareNone \/ dst = SquareNone THEN NullMove
            ELSE IF Len(str) = 5
            THEN IF str[5] \in DOMAIN PromoChars
                 THEN movePromotion(src, dst, PromoChars[str[5]]) ELSE NullMove
            ELSE LET srcPiece == pieceAt(boardsOf(p), src)
                 IN IF basePiece(srcPiece) = King /\ srcPiece # PieceNone
                       /\ chess960
                       /\ pieceAt(boardsOf(p), dst) = colorPiece(Rook, pieceColor(srcPiece))
                    THEN moveCastling(src, dst)
                    ELSE IF basePiece(srcPiece) = King /\ srcPiece # PieceNone
                            /\ ~chess960
                            /\ Abs(squareFile(src) - squareFile(dst)) = 2
                    THEN moveCastling(src, toSquare(squareRank(src),
                                                    IF squareFile(src) < squareFile(dst) THEN 7 ELSE 0))
                    ELSE IF basePiece(srcPiece) = Pawn /\ srcPiece # PieceNone /\ dst = enPassant(p)
                    THEN moveEnPassant(src, dst)
                    ELSE moveStandard(src, dst)

\* Position::regenMaterial
regenMaterial(p) ==
    [p EXCEPT !.m_states[Len(p.m_states)].material = scratchMaterial(boardsOf(p))]

\* Position::starting
backRank(c, rank) ==
    <<<<colorPiece(Rook, c), toSquare(rank, 0)>>, <<colorPiece(Knight, c), toSquare(rank, 1)>>,
      <<colorPiece(Bishop, c), toSquare(rank, 2)>>, <<colorPiece(Queen, c), toSquare(rank, 3)>>,
      <<colorPiece(King, c), toSquare(rank, 4)>>, <<colorPiece(Bishop, c), toSquare(rank, 5)>>,
      <<colorPiece(Knight, c), toSquare(rank, 6)>>, <<colorPiece(Rook, c), toSquare(rank, 7)>>>>
pawnRank(c, rank) == [f \in 1 .. 8 |-> <<colorPiece(Pawn, c), toSquare(rank, f - 1)>>]
starting ==
    positionFrom(backRank(White, 0) \o pawnRank(White, 1) \o pawnRank(Black, 6) \o backRank(Black, 7),
                 FALSE,
                 [blackShort |-> H8, blackLong |-> A8, whiteShort |-> H1, whiteLong |-> A1],
                 SquareNone, 0, 1)

\* Position::fromFen on the (up to six) tokens after "fen": the positions
\* known by their board field, no value for anything else
fromFen(fen) ==
    IF Len(fen) = 6 /\ fen[1].text = "7k/8/8/3p4/3P4/8/8/K7" /\ fen[2].text = "w"
    THEN [has |-> TRUE, value |-> ShufflePosition, nextTok |-> 0]
    ELSE [has |-> FALSE, value |-> 0, nextTok |-> 0]


----------------------------------------------------------------------------
(* Driving the handler: a few command lines, read one after the other      *)

MaxCommands == 3

optionLine(name, value) == <<tok("setoption"), tok("name")>> \o name \o <<tok("value")>> \o value
ClearHashLine == <<tok("setoption"), tok("name"), tok("Clear"), tok("Hash")>>
SetoptionLines ==
    {optionLine(<<tok("Hash")>>, <<numTok(v)>>) : v \in {0, 8, 33}}
    \cup {optionLine(<<tok("Threads")>>, <<numTok(v)>>) : v \in {0, 2, 4}}
    \cup {optionLine(<<tok("Move"), tok("Overhead")>>, <<numTok(v)>>) : v \in {0 - 1, 21}}
    \cup {optionLine(<<tok("UCI_Chess960")>>, <<tok("true")>>),
          optionLine(<<tok("Underpromotions")>>, <<tok("true")>>),
          optionLine(<<tok("Hash")>>, <<>>),
          ClearHashLine}
BenchLines ==
    {<<tok("bench")>>, <<tok("bench"), tok("x")>>}
    \cup {<<tok("bench"), numTok(1), numTok(1), numTok(v)>> : v \in {0, 8, 33}}
FenTokens == <<tok("7k/8/8/3p4/3P4/8/8/K7"), tok("w"), tok("-"), tok("-"), numTok(0), numTok(1)>>
\* the move tokens a GUI may send after each head: moves that are legal in
\* their turn, and the malformed token zz among them
StartMoveLists ==
    {<<tok("e2e4")>>, <<tok("zz")>>, <<tok("e2e4"), tok("e7e5")>>, <<tok("e2e4"), tok("zz")>>,
     <<tok("zz"), tok("e2e4")>>}
FenMoveLists == {<<tok("a1b1")>>, <<tok("zz")>>, <<tok("a1b1"), tok("zz")>>}
withMoves(head, lists) == {head \o <<tok("moves")>> \o moves : moves \in lists}
PositionLines ==
    {<<tok("position"), tok("startpos")>>, <<tok("position"), tok("fen")>> \o FenTokens,
     <<tok("position"), tok("fen"), tok("8/8"), tok("w")>>, <<tok("position"), tok("current")>>,
     <<tok("position"), tok("fen"), tok("8/8"), tok("w"), tok("moves"), tok("e2e4")>>}
    \cup withMoves(<<tok("position"), tok("startpos")>>, StartMoveLists)
    \cup withMoves(<<tok("position"), tok("fen")>> \o FenTokens, FenMoveLists)

\* the loop over the tokens after "moves"
RECURSIVE applyUciMoves(_, _, _, _)
applyUciMoves(p, tokens, nextTok, chess960) ==
    IF nextTok >= Len(tokens) THEN p
    ELSE LET move == moveFromUci(p, CharsOf[tokens[nextTok + 1].text], chess960)
         IN applyUciMoves(IF move # NullMove THEN applyMoveUnchecked(p, move, FALSE, FALSE) ELSE p,
                          tokens, nextTok + 1, chess960)

\* the head of handlePosition: the position m_pos is replaced with and
\* the index of the token after it, no value where the handler returns
\* without touching m_pos
headPosition(tokens) ==
    IF Len(tokens) > 1
    THEN IF tokens[2].text = "startpos" THEN [has |-> TRUE, value |-> starting, nextTok |-> 2]
         ELSE IF tokens[2].text = "fen"
         THEN LET nextTok == IF Len(tokens) < 8 THEN Len(tokens) ELSE 8
              IN [fromFen(slice(tokens, 2, nextTok)) EXCEPT !.nextTok = nextTok]
         ELSE [has |-> FALSE, value |-> 0, nextTok |-> 0]
    ELSE [has |-> FALSE, value |-> 0, nextTok |-> 0]

\* the tail of handlePosition once m_pos has been replaced
positionMoves(head, tokens, chess960) ==
    IF ~head.has THEN NoValue
    ELSE IF head.nextTok < Len(tokens) /\ tokens[head.nextTok + 1].text = "moves"
    THEN Some(regenMaterial(applyUciMoves(head.value, tokens, head.nextTok + 1, chess960)))
    ELSE Some(head.value)

\* handlePosition when not searching: the new m_pos, if any
newPosition(tokens, chess960) == positionMoves(headPosition(tokens), tokens, chess960)

\* newPosition over the lines read here, worked out once
LineResults ==
    {<<tokens, chess960, newPosition(tokens, chess960)>> : tokens \in PositionLines, chess960 \in BOOLEAN}

withPosition(h, newPos) == IF newPos.has THEN [h EXCEPT !.m_pos = newPos.value] ELSE h

\* UciHandler::handlePosition
handlePosition(h, tokens) ==
    IF searching(h.m_searcher) THEN h
    ELSE withPosition(h, (CHOOSE r \in LineResults : r[1] = tokens /\ r[2] = h.s_opts.chess960)[3])

InitUci ==
    /\ RestInit
    /\ pos = starting
    /\ g_opts = [chess960 |-> FALSE, underpromotions |-> FALSE]
    /\ saved = <<>>
    /\ lastOp = [op |-> "init"]
    /\ Quiescence = FALSE
    /\ m_hashMove = NullMove
    /\ m_killer = NullMove
    /\ m_prevMove = FALSE
    /\ m_prevPrevMove = FALSE
    /\ m_history = NullHistory
    /\ see = {}
    /\ m_moves = <<>>
    /\ m_stage = StageStart
    /\ m_idx = 0
    /\ m_noisyEnd = 0
    /\ m_goodNoisyEnd = 0
    /\ m_countermove = NullMove
    /\ returned = <<>>
    /\ setup = [scenario |-> 0, included |-> {}, ep |-> FALSE]
    /\ genDone = FALSE
    /\ noisyList = <<>>
    /\ quietList = <<>>
    /\ allList = <<>>

\* the handler's members, s_opts and m_pos after a handler has run
handled(h, op, tokens) ==
    /\ m_searcher' = h.m_searcher
    /\ m_hashSize' = h.m_hashSize
    /\ m_newSearcherHashSize' = h.m_newSearcherHashSize
    /\ m_moveOverhead' = h.m_moveOverhead
    /\ g_opts' = h.s_opts
    /\ pos' = h.m_pos
    /\ received' = received + 1
    /\ lastOp' = [op |-> op, tokens |-> tokens, before |-> handlerState]
    /\ UNCHANGED <<saved, mgVars, genVars, evalVars, positionBoards>>

HandleSetoption ==
    /\ received < MaxCommands
    /\ \E tokens \in SetoptionLines :
           \E h \in {handleSetoption(handlerState, tokens)} : handled(h, "setoption", tokens)

HandlePosition ==
    /\ received < MaxCommands
    /\ \E tokens \in PositionLines :
           \E h \in {handlePosition(handlerState, tokens)} : handled(h, "position", tokens)

HandleGo ==
    /\ received < MaxCommands
    /\ \E depth \in {0, 1} :
           handled(handleGo(handlerState, depth), "go", <<tok("go"), tok("depth"), numTok(depth)>>)

HandleStop ==
    /\ received < MaxCommands
    /\ handled(handleStop(handlerState), "stop", <<tok("stop")>>)

HandleBench ==
    /\ received < MaxCommands
    /\ \E tokens \in BenchLines :
           \E h \in {handleBench(handlerState, tokens)} : handled(h, "bench", tokens)

\* the search thread comes to its end by itself
SearchEnds ==
    /\ searching(m_searcher)
    /\ m_searcher' = stop(m_searcher)
    /\ UNCHANGED <<pos, g_opts, m_hashSize, m_newSearcherHashSize, m_moveOverhead, received,
                   saved, lastOp, mgVars, genVars, evalVars, positionBoards>>

NextUci == HandleSetoption \/ HandlePosition \/ HandleGo \/ HandleStop \/ HandleBench \/ SearchEnds

SpecUci == InitUci /\ [][NextUci]_vars

\* C13: setoption name Clear Hash while a search is running leaves the
\* handler and the searcher as they were: the table is not cleared or
\* resized and a pending hash size stays pending
C13_ClearHashWhileSearching ==
    (lastOp.op = "setoption" /\ lastOp.tokens = ClearHashLine /\ lastOp.before.m_searcher.searching) =>
        handlerState = lastOp.before

\* the tokens after "moves" in a position line
lineMoves(tokens) ==
    LET at == scanTo(tokens, 2, Len(tokens), "moves")
    IN slice(tokens, at + 1, Len(tokens))

\* C14: a position line with a malformed move token, read while not
\* searching, leaves the handler's position as it was before the line
C14_MalformedMoveKeepsPosition ==
    (/\ lastOp.op = "position"
     /\ ~lastOp.before.m_searcher.searching
     /\ \E i \in DOMAIN lineMoves(lastOp.tokens) :
            moveFromUci(pos, CharsOf[lineMoves(lastOp.tokens)[i].text], g_opts.chess960) = NullMove) =>
        pos = lastOp.before.m_pos

\* the numeral given for the option or, with bench, for the hash size
suppliedValue == lastOp.tokens[Len(lastOp.tokens)].num

\* C15: a hash size, thread count or move overhead given by the user is
\* stored in the handler or handed to the searcher clamped into its range,
\* whether it comes with setoption or with bench
C15_ValuesClamped ==
    /\ (lastOp.op = "setoption" /\ Len(lastOp.tokens) = 5 /\ lastOp.tokens[3].text = "Hash"
            /\ lastOp.tokens[5].text = "#") =>
           /\ m_hashSize = Some(clamp(HashSizeRange, suppliedValue))
           /\ m_newSearcherHashSize = m_hashSize
    /\ (lastOp.op = "setoption" /\ Len(lastOp.tokens) = 5 /\ lastOp.tokens[3].text = "Threads") =>
           m_searcher.threads = clamp(ThreadCountRange, suppliedValue)
    /\ (lastOp.op = "setoption" /\ Len(lastOp.tokens) = 6 /\ lastOp.tokens[3].text = "Move") =>
           m_moveOverhead = clamp(MoveOverheadRange, suppliedValue)
    /\ (lastOp.op = "bench" /\ Len(lastOp.tokens) = 4 /\ ~lastOp.before.m_searcher.searching) =>
           m_searcher.hashSize = clamp(HashSizeRange, suppliedValue)

----------------------------------------------------------------------------
(* Evaluation (eval.cpp): tapered terms per side, white minus black        *)

S(Mg, Eg) == [midgame |-> Mg, endgame |-> Eg]
ZeroScore == S(0, 0)
mulScore(a, n) == S(a.midgame * n, a.endgame * n)
sumScores(set, f) ==
    S(SumOver(set, [x \in set |-> f[x].midgame]), SumOver(set, [x \in set |-> f[x].endgame]))

\* pawn structure
DoubledPawn == S(-18, -25)
DoubledGappedPawn == S(-4, -18)
PawnDefender == S(17, 14)
OpenPawn == S(-11, -7)
PawnPhalanx == <<S(0, 0), S(3, 5), S(22, 10), S(25, 25), S(44, 61), S(118, 136), S(23, 259)>>
Passer == <<S(0, 0), S(0, 7), S(-4, 14), S(-13, 45), S(12, 66), S(8, 138), S(48, 152)>>
DefendedPasser == <<S(0, 0), S(0, 0), S(4, -9), S(5, -11), S(8, 0), S(33, 15), S(154, -12)>>
BlockedPasser == <<S(0, 0), S(-9, -3), S(-9, 3), S(-5, -8), S(-13, -24), S(5, -87), S(29, -138)>>
CandidatePasser == <<S(0, 0), S(7, -3), S(1, 0), S(3, 12), S(20, 16), S(46, 60), S(0, 0)>>
DoubledPasser == S(17, -26)
PasserHelper == S(-8, 13)
\* pawns
PawnAttackingMinor == S(52, 17)
PawnAttackingRook == S(98, -31)
PawnAttackingQueen == S(57, -16)
PasserSquareRule == S(12, 102)
\* minors, knights, bishops, rooks, kings
MinorBehindPawn == S(5, 18)
MinorAttackingRook == S(40, 0)
MinorAttackingQueen == S(27, 3)
KnightOutpost == S(25, 16)
BishopPair == S(26, 59)
RookOnOpenFile == S(41, 2)
RookOnSemiOpenFile == S(15, 9)
RookSupportingPasser == S(17, 14)
RookAttackingQueen == S(55, -23)
KingOnOpenFile == S(-71, 2)
KingOnSemiOpenFile == S(-30, 18)
\* mobility, indexed by the number of available attacked squares
KnightMobility ==
    <<S(-42, -12), S(-23, -8), S(-12, -5), S(-8, 0), S(3, 3), S(8, 11), S(16, 10), S(20, 9),
      S(36, -8)>>
BishopMobility ==
    <<S(-53, 5), S(-38, -13), S(-26, -23), S(-18, -16), S(-9, -8), S(-5, 0), S(0, 7), S(3, 9),
      S(2, 13), S(11, 9), S(21, 3), S(46, 0), S(7, 24), S(58, -10)>>
RookMobility ==
    <<S(-42, -38), S(-29, -15), S(-23, -15), S(-18, -11), S(-17, -7), S(-11, -4), S(-9, 2), S(-4, 4),
      S(5, 7), S(11, 9), S(14, 12), S(23, 14), S(25, 18), S(42, 11), S(34, 11)>>
QueenMobility ==
    <<S(-31, 63), S(-31, 222), S(-32, 89), S(-33, 53), S(-31, 49), S(-24, -23), S(-20, -58), S(-17, -68),
      S(-14, -66), S(-8, -73), S(-7, -59), S(-3, -49), S(-4, -45), S(4, -40), S(5, -29), S(0, -14),
      S(0, -4), S(16, -18), S(12, -5), S(27, -9), S(33, -5), S(64, -19), S(44, -3), S(83, -12),
      S(35, 4), S(41, 0), S(-42, 62), S(-66, 57)>>
\* eval::Tempo (eval.h): a small bonus for the side to move
Tempo == 16

\* Bitboard shifts and fills (bitboard.h); a fill keeps the squares it starts from
shiftLeft(bb) == {s - 1 : s \in {t \in bb : squareFile(t) > 0}}
shiftRight(bb) == {s + 1 : s \in {t \in bb : squareFile(t) < 7}}
shiftDownRelative(us, bb) == IF us = Black THEN shiftUp(bb) ELSE shiftDown(bb)
fillUp(bb) == {t \in Squares : \E s \in bb : squareFile(s) = squareFile(t) /\ squareRank(t) >= squareRank(s)}
fillDown(bb) == {t \in Squares : \E s \in bb : squareFile(s) = squareFile(t) /\ squareRank(t) <= squareRank(s)}
fillUpRelative(us, bb) == IF us = Black THEN fillDown(bb) ELSE fillUp(bb)
fillDownRelative(us, bb) == IF us = Black THEN fillUp(bb) ELSE fillDown(bb)
fillFile(bb) == fillUp(bb) \cup fillDown(bb)
Files(file) == {s \in Squares : squareFile(s) = file}
DarkSquares == Squares \ LightSquares
\* relativeRank<Us>(rank): the rank index seen from Us
relativeRankIdx(us, rank) == IF us = Black THEN 7 - rank ELSE rank
chebyshev(a, b) ==
    LET dr == Abs(squareRank(a) - squareRank(b))
        df == Abs(squareFile(a) - squareFile(b))
    IN IF dr > df THEN dr ELSE df
getQueenAttacks(s, occ) == getRookAttacks(s, occ) \cup getBishopAttacks(s, occ)
\* C++ integer division: truncates toward zero (the divisor is positive here)
truncDiv(a, b) == IF a >= 0 THEN a \div b ELSE -((-a) \div b)

AntiPasserMasks(us, square) ==
    LET one == squareBit(square)
    IN fillUpRelative(us, shiftUpRelative(us, one \cup shiftLeft(one) \cup shiftRight(one)))
PawnHelperMasks(us, square) ==
    LET one == squareBit(square)
    IN fillDownRelative(us, shiftDownRelative(us, shiftLeft(one) \cup shiftRight(one)))

\* the part of EvalData the constructor fills in before the terms run
initialData(boards, us) ==
    LET ourAttacks == shiftUpLeftRelative(us, forPieceOf(boards, Pawn, us))
                          \cup shiftUpRightRelative(us, forPieceOf(boards, Pawn, us))
        theirAttacks == shiftUpLeftRelative(oppColor(us), forPieceOf(boards, Pawn, oppColor(us)))
                          \cup shiftUpRightRelative(oppColor(us), forPieceOf(boards, Pawn, oppColor(us)))
    IN [pawnAttacks |-> ourAttacks,
        semiOpen |-> Squares \ fillFile(forPieceOf(boards, Pawn, us)),
        available |-> Squares \ (forColor(boards, us) \cup theirAttacks)]
openFiles(boards) == initialData(boards, Black).semiOpen \cap initialData(boards, White).semiOpen

\* the bonus of one pawn in the loop of evalPawnStructure
pawnBonus(us, boards, ours, theirs, square) ==
    LET ourPawns == forPieceOf(boards, Pawn, us)
        theirPawns == forPieceOf(boards, Pawn, oppColor(us))
        pawn == squareBit(square)
        rank == relativeRankIdx(us, squareRank(square))
        doubledPawns == shiftUpRelative(us, ourPawns) \cap ourPawns
        antiPassers == theirPawns \cap AntiPasserMasks(us, square)
        stopBit == shiftUpRelative(us, pawn)
        levers == antiPassers \cap (shiftUpLeftRelative(us, pawn) \cup shiftUpRightRelative(us, pawn))
        telelevers == antiPassers \cap (shiftUpLeftRelative(us, stopBit) \cup shiftUpRightRelative(us, stopBit))
        sideHelpers == ourPawns \cap (shiftLeft(pawn) \cup shiftRight(pawn))
    IN IF antiPassers = {}
       THEN addScore(addScore(Passer[rank + 1],
                              IF pawn \cap ours.pawnAttacks # {} THEN DefendedPasser[rank + 1] ELSE ZeroScore),
                     addScore(IF pawn \cap doubledPawns # {} THEN DoubledPasser ELSE ZeroScore,
                              mulScore(PasserHelper, Cardinality(ourPawns \cap PawnHelperMasks(us, square)))))
       ELSE IF pawn \cap theirs.semiOpen # {}
       THEN IF antiPassers = levers THEN CandidatePasser[rank + 1]
            ELSE IF antiPassers = telelevers \/ Cardinality(telelevers) <= Cardinality(sideHelpers)
                 THEN CandidatePasser[rank + 1]
                 ELSE ZeroScore
       ELSE ZeroScore

\* Evaluator::evalPawnStructure<Us>: the score added to ours.pawnStructure
\* and the squares added to ours.passers
evalPawnStructure(us, boards, ours, theirs) ==
    LET ourPawns == forPieceOf(boards, Pawn, us)
        theirPawns == forPieceOf(boards, Pawn, oppColor(us))
        up == shiftUpRelative(us, ourPawns)
        phalanx == ourPawns \cap shiftLeft(ourPawns)
        counted ==
            addScore(addScore(mulScore(DoubledPawn, Cardinality(up \cap ourPawns)),
                              mulScore(DoubledGappedPawn, Cardinality(shiftUpRelative(us, up) \cap ourPawns))),
                     addScore(mulScore(PawnDefender, Cardinality(ours.pawnAttacks \cap ourPawns)),
                              mulScore(OpenPawn, Cardinality((ourPawns \ fillDownRelative(us, theirPawns))
                                                                 \ ours.pawnAttacks))))
    IN [pawnStructure |->
            addScore(counted,
                addScore(sumScores(phalanx, [s \in phalanx |-> PawnPhalanx[relativeRankIdx(us, squareRank(s)) + 1]]),
                         sumScores(ourPawns, [s \in ourPawns |-> pawnBonus(us, boards, ours, theirs, s)]))),
        passers |-> {s \in ourPawns : theirPawns \cap AntiPasserMasks(us, s) = {}}]

\* the bonus of one passer in the loop of evalPawns
passerBonus(us, p, square) ==
    LET boards == boardsOf(p)
        them == oppColor(us)
        rank == relativeRankIdx(us, squareRank(square))
        promotion == toSquare(relativeRankIdx(us, 7), squareFile(square))
        dist == IF chebyshev(square, promotion) < 5 THEN chebyshev(square, promotion) ELSE 5
    IN addScore(IF /\ nonPk(boards) \cap forColor(boards, them) = {}
                   /\ dist + (IF us = toMove(p) THEN 1 ELSE 0) < chebyshev(king(p, them), promotion)
                THEN PasserSquareRule ELSE ZeroScore,
                IF shiftUpRelative(us, squareBit(square)) \cap occupancy(boards) # {}
                THEN BlockedPasser[rank + 1] ELSE ZeroScore)

\* Evaluator::evalPawns<Us>: the score added to ours.pawns
evalPawns(us, p, ours, passers) ==
    LET boards == boardsOf(p)
        theirs == forColor(boards, oppColor(us))
    IN addScore(addScore(mulScore(PawnAttackingMinor, Cardinality(ours.pawnAttacks \cap minors(boards) \cap theirs)),
                         mulScore(PawnAttackingRook, Cardinality(ours.pawnAttacks \cap rooks(boards) \cap theirs))),
                addScore(mulScore(PawnAttackingQueen, Cardinality(ours.pawnAttacks \cap queens(boards) \cap theirs)),
                         sumScores(passers, [s \in passers |-> passerBonus(us, p, s)])))

\* Evaluator::evalKnights<Us>: the scores added to ours.knights and ours.mobility
evalKnights(us, p, ours) ==
    LET boards == boardsOf(p)
        them == oppColor(us)
        ourKnights == forPieceOf(boards, Knight, us)
        outpost(s) == /\ (AntiPasserMasks(us, s) \ Files(squareFile(s))) \cap forPieceOf(boards, Pawn, them) = {}
                      /\ squareBit(s) \cap ours.pawnAttacks # {}
        one(s) == addScore(IF outpost(s) THEN KnightOutpost ELSE ZeroScore,
                      addScore(mulScore(MinorAttackingRook,
                                        Cardinality(getKnightAttacks(s) \cap forPieceOf(boards, Rook, them))),
                               mulScore(MinorAttackingQueen,
                                        Cardinality(getKnightAttacks(s) \cap forPieceOf(boards, Queen, them)))))
    IN [knights |-> addScore(mulScore(MinorBehindPawn,
                                      Cardinality(shiftUpRelative(us, ourKnights) \cap forPieceOf(boards, Pawn, us))),
                             sumScores(ourKnights, [s \in ourKnights |-> one(s)])),
        mobility |-> sumScores(ourKnights, [s \in ourKnights |->
                         KnightMobility[Cardinality(getKnightAttacks(s) \cap ours.available) + 1]])]

\* Evaluator::evalBishops<Us>: the scores added to ours.bishops and ours.mobility
evalBishops(us, p, ours) ==
    LET boards == boardsOf(p)
        them == oppColor(us)
        ourBishops == forPieceOf(boards, Bishop, us)
        occ == occupancy(boards)
        xrayOcc == xorBits(xorBits(occ, ourBishops), forPieceOf(boards, Queen, us))
        one(s) == addScore(mulScore(MinorAttackingRook,
                                    Cardinality(getBishopAttacks(s, occ) \cap forPieceOf(boards, Rook, them))),
                           mulScore(MinorAttackingQueen,
                                    Cardinality(getBishopAttacks(s, occ) \cap forPieceOf(boards, Queen, them))))
    IN [bishops |-> addScore(mulScore(MinorBehindPawn,
                                      Cardinality(shiftUpRelative(us, ourBishops) \cap forPieceOf(boards, Pawn, us))),
                        addScore(IF ourBishops \cap DarkSquares # {} /\ ourBishops \cap LightSquares # {}
                                 THEN BishopPair ELSE ZeroScore,
                                 sumScores(ourBishops, [s \in ourBishops |-> one(s)]))),
        mobility |-> sumScores(ourBishops, [s \in ourBishops |->
                         BishopMobility[Cardinality(getBishopAttacks(s, xrayOcc) \cap ours.available) + 1]])]

\* Evaluator::evalRooks<Us>: the scores added to ours.rooks and ours.mobility
evalRooks(us, p, ours, passers) ==
    LET boards == boardsOf(p)
        them == oppColor(us)
        ourRooks == forPieceOf(boards, Rook, us)
        occ == occupancy(boards)
        xrayOcc == xorBits(xorBits(occ, ourRooks), forPieceOf(boards, Queen, us))
        one(s) == addScore(IF s \in openFiles(boards) THEN RookOnOpenFile
                           ELSE IF s \in ours.semiOpen THEN RookOnSemiOpenFile ELSE ZeroScore,
                      addScore(IF fillUpRelative(us, squareBit(s)) \cap passers # {}
                               THEN RookSupportingPasser ELSE ZeroScore,
                               mulScore(RookAttackingQueen,
                                        Cardinality(getRookAttacks(s, occ) \cap forPieceOf(boards, Queen, them)))))
    IN [rooks |-> sumScores(ourRooks, [s \in ourRooks |-> one(s)]),
        mobility |-> sumScores(ourRooks, [s \in ourRooks |->
                         RookMobility[Cardinality(getRookAttacks(s, xrayOcc) \cap ours.available) + 1]])]

\* Evaluator::evalQueens<Us>: the score added to ours.mobility
evalQueens(us, p, ours) ==
    LET boards == boardsOf(p)
        ourQueens == forPieceOf(boards, Queen, us)
        xrayOcc == xorBits(xorBits(xorBits(occupancy(boards), forPieceOf(boards, Bishop, us)),
                                   forPieceOf(boards, Rook, us)), ourQueens)
    IN sumScores(ourQueens, [s \in ourQueens |->
           QueenMobility[Cardinality(getQueenAttacks(s, xrayOcc) \cap ours.available) + 1]])

\* the king's file term scored for White only
evalKingWhiteOnly(us, p, ours) ==
    IF us = White /\ forPieceOf(boardsOf(p), King, us) \cap ours.semiOpen # {} THEN KingOnSemiOpenFile ELSE ZeroScore

\* Evaluator::evalKing<Us>: the score added to ours.kings
evalKing(us, p, ours) ==
    LET ourKing == forPieceOf(boardsOf(p), King, us)
    IN IF ourKing \cap openFiles(boardsOf(p)) # {} THEN KingOnOpenFile
       ELSE IF ourKing \cap ours.semiOpen # {} THEN KingOnSemiOpenFile
       ELSE ZeroScore
\* Position::interpScore
interpScore(p, score) ==
    truncDiv(score.midgame * currState(p).phase + score.endgame * (24 - currState(p).phase), 24)

\* what one side's terms other than the pawn structure add to m_total
sideTerms(us, p, ours, passers) ==
    addScore(addScore(addScore(evalPawns(us, p, ours, passers), evalKnights(us, p, ours).knights),
                      addScore(evalBishops(us, p, ours).bishops, evalRooks(us, p, ours, passers).rooks)),
             addScore(addScore(evalKing(us, p, ours), evalKnights(us, p, ours).mobility),
                      addScore(addScore(evalBishops(us, p, ours).mobility, evalRooks(us, p, ours, passers).mobility),
                               evalQueens(us, p, ours))))

\* m_final with a likely-drawn position scored 0 instead of scaled
finalScoreDrawnZero(p, total) ==
    IF isLikelyDrawn(p) THEN 0 ELSE truncDiv(interpScore(p, total) * (200 - halfmove(p)), 200)
\* m_final from m_total: interpolation, halfmove scaling, likely-drawn scaling
finalScore(p, total) ==
    IF isLikelyDrawn(p)
    THEN truncDiv(truncDiv(interpScore(p, total) * (200 - halfmove(p)), 200), 8)
    ELSE truncDiv(interpScore(p, total) * (200 - halfmove(p)), 200)

\* PawnCache::probe: the entry a pawn key maps to; the low bits of a key are
\* modelled by the number of its terms
probe(k) == Cardinality(k) % PawnCacheSize
\* the passers of a cache entry without the occupancy mask
cachedPassersUnmasked(entry, boards, us) == entry.passers
\* the passers a cache hit hands to one colour
cachedPassers(entry, boards, us) == entry.passers \cap forColor(boards, us)

\* the rest of the constructor once the pawn structure is known: structure is
\* m_whiteData.pawnStructure - m_blackData.pawnStructure
evaluated(p, structure, blackPassers, whitePassers, cache, hit) ==
    [total |-> addScore(addScore(currState(p).material, structure),
                        subScore(sideTerms(White, p, initialData(boardsOf(p), White), whitePassers),
                                 sideTerms(Black, p, initialData(boardsOf(p), Black), blackPassers))),
     pawnStructure |-> structure,
     passers |-> <<blackPassers, whitePassers>>,
     cache |-> cache,
     hit |-> hit]

\* the pawn structure computed afresh: black first, then white
freshStructure(p, cache, store) ==
    LET boards == boardsOf(p)
        black == evalPawnStructure(Black, boards, initialData(boards, Black), initialData(boards, White))
        white == evalPawnStructure(White, boards, initialData(boards, White), initialData(boards, Black))
        structure == subScore(white.pawnStructure, black.pawnStructure)
    IN evaluated(p, structure, black.passers, white.passers,
                 IF store
                 THEN [cache EXCEPT ![probe(pawnKey(p))] =
                          PawnCacheEntry(pawnKey(p), structure, black.passers \cup white.passers)]
                 ELSE cache,
                 FALSE)

\* Evaluator::Evaluator: given is FALSE for a null pawnCache pointer
Evaluator(p, given, cache) ==
    IF given
    THEN IF cache[probe(pawnKey(p))].key = pawnKey(p)
         THEN evaluated(p, cache[probe(pawnKey(p))].eval,
                        cachedPassers(cache[probe(pawnKey(p))], boardsOf(p), Black),
                        cachedPassers(cache[probe(pawnKey(p))], boardsOf(p), White), cache, TRUE)
         ELSE freshStructure(p, cache, TRUE)
    ELSE freshStructure(p, cache, FALSE)

\* Evaluator::eval
eval(p, given, cache) == finalScore(p, Evaluator(p, given, cache).total)
\* eval::staticEval
staticEval(p, given, cache) ==
    eval(p, given, cache) * (IF toMove(p) = Black THEN -1 ELSE 1) + Tempo

----------------------------------------------------------------------------
(* Harness for the evaluation: the two kings and up to MaxEvalPieces       *)
(* further pieces, either side to move, two halfmove clocks; staticEval is *)
(* called without a pawn cache.                                            *)

MaxEvalPieces == 3

EvalPool ==
    <<<<wP, 28>>, <<wP, 27>>, <<wP, 36>>, <<bP, 35>>, <<bP, 44>>, <<bP, 37>>,
      <<wN, 18>>, <<bN, 45>>, <<wB, 2>>, <<wB, 5>>, <<wR, 4>>, <<bQ, 59>>>>
EvalHalfmoves == {0, 37}

evalPosition(extra, blackToMove, hm) ==
    positionFrom(<<<<wK, 6>>, <<bK, 62>>>> \o [i \in 1 .. Len(setToSeq(extra)) |-> EvalPool[setToSeq(extra)[i]]],
                 blackToMove, NoCastlingRooks, SquareNone, hm, 1)

InitEval ==
    /\ RestInit
    /\ \E extra \in SUBSET (1 .. Len(EvalPool)), blackToMove \in BOOLEAN, hm \in EvalHalfmoves :
          /\ Cardinality(extra) <= MaxEvalPieces
          /\ pos = evalPosition(extra, blackToMove, hm)
    /\ g_opts = [underpromotions |-> FALSE, chess960 |-> FALSE]
    /\ Quiescence = FALSE /\ m_hashMove = NullMove /\ m_killer = NullMove
    /\ m_prevMove = FALSE /\ m_prevPrevMove = FALSE /\ m_history = NullHistory
    /\ see = {} /\ m_moves = <<>> /\ m_stage = StageStart /\ m_idx = 0
    /\ m_noisyEnd = 0 /\ m_goodNoisyEnd = 0 /\ m_countermove = NullMove /\ returned = <<>>
    /\ setup = [scenario |-> 0, included |-> {}, ep |-> FALSE]
    /\ genDone = FALSE /\ noisyList = <<>> /\ quietList = <<>> /\ allList = <<>>
    /\ saved = <<>>
    /\ lastOp = [op |-> "none"]

\* staticEval(pos, nullptr)
StaticEval ==
    /\ lastOp.op = "none"
    /\ lastOp' = [op |-> "staticEval", result |-> staticEval(pos, FALSE, pawnCache),
                  total |-> Evaluator(pos, FALSE, pawnCache).total]
    /\ UNCHANGED <<pos, saved, g_opts, mgVars, genVars, restVars>>

NextEval == StaticEval

SpecEval == InitEval /\ [][NextEval]_vars

\* the mirror of a position: colours swapped, ranks flipped, the other side to move
flipSquare(s) == toSquare(7 - squareRank(s), squareFile(s))
mirror(p) ==
    LET occupied == SelectSeq(SquareSeq, LAMBDA s : s \in occupancy(boardsOf(p)))
    IN positionFrom([i \in 1 .. Len(occupied) |->
                        <<flipPieceColor(pieceAt(boardsOf(p), occupied[i])), flipSquare(occupied[i])>>],
                    ~p.m_blackToMove, NoCastlingRooks, SquareNone, halfmove(p), p.m_fullmove)

\* C16: the white-relative evaluation of the mirrored position is the exact
\* negation of the position's, and staticEval (relative to the side to move,
\* tempo included) returns the same value for both.
C16_MirrorSymmetry ==
    lastOp.op = "staticEval" =>
        /\ eval(mirror(pos), FALSE, pawnCache) = -eval(pos, FALSE, pawnCache)
        /\ staticEval(mirror(pos), FALSE, pawnCache) = lastOp.result
\* an unbalanced position with pawns and pieces has been evaluated to a non-zero score
C16_Witness ==
    /\ lastOp.op = "staticEval"
    /\ eval(pos, FALSE, pawnCache) # 0
    /\ pawns(boardsOf(pos)) # {} /\ nonPk(boardsOf(pos)) # {}
    /\ mirror(pos) # pos

\* C18: staticEval is s * (black to move ? -1 : 1) + Tempo, s being the tapered
\* total interpolated by phase, scaled by (200 - halfmove) / 200 and divided
\* by 8 when the position is likely drawn, with truncating divisions; a
\* likely-drawn position is scaled, not scored 0.
interpolated == truncDiv(lastOp.total.midgame * currState(pos).phase
                         + lastOp.total.endgame * (24 - currState(pos).phase), 24)
halfmoveScaled == truncDiv(interpolated * (200 - halfmove(pos)), 200)
drawScaled == IF isLikelyDrawn(pos) THEN truncDiv(halfmoveScaled, 8) ELSE halfmoveScaled
C18_StaticEvalFormula ==
    lastOp.op = "staticEval" =>
        lastOp.result = drawScaled * (IF pos.m_blackToMove THEN -1 ELSE 1) + Tempo
\* a likely-drawn position with a negative score that the division by 8 leaves non-zero
C18_Witness ==
    /\ lastOp.op = "staticEval"
    /\ isLikelyDrawn(pos)
    /\ halfmoveScaled < -8
    /\ halfmove(pos) > 0
    /\ lastOp.result # Tempo

----------------------------------------------------------------------------
(* Harness for the pawn cache: one searcher thread evaluates one position  *)
(* after another with the same cache. Some of the positions share their    *)
(* pawns and side to move and differ in pieces, castling rights or the     *)
(* en-passant square; others have different pawns that map to the same     *)
(* entry.                                                                  *)

WhiteShortOnly == [NoCastlingRooks EXCEPT !.whiteShort = H1]
CachePositions ==
    <<positionFrom(<<<<wK, 4>>, <<bK, 62>>, <<wP, 36>>, <<bP, 35>>>>, FALSE, NoCastlingRooks, SquareNone, 0, 1),
      positionFrom(<<<<wK, 4>>, <<bK, 62>>, <<wP, 36>>, <<bP, 35>>, <<wR, 7>>>>, FALSE, WhiteShortOnly, SquareNone, 0, 1),
      positionFrom(<<<<wK, 4>>, <<bK, 62>>, <<wP, 36>>, <<bP, 35>>, <<wR, 7>>>>, FALSE, NoCastlingRooks, SquareNone, 0, 1),
      positionFrom(<<<<wK, 6>>, <<bK, 62>>, <<wP, 36>>, <<bP, 35>>, <<bR, 3>>, <<wR, 60>>>>, FALSE, NoCastlingRooks, SquareNone, 3, 1),
      positionFrom(<<<<wK, 6>>, <<bK, 62>>, <<wP, 36>>, <<bP, 35>>>>, FALSE, NoCastlingRooks, 43, 0, 1),
      positionFrom(<<<<wK, 6>>, <<bK, 62>>, <<wP, 36>>, <<bP, 35>>>>, TRUE, NoCastlingRooks, SquareNone, 0, 1),
      positionFrom(<<<<wK, 6>>, <<bK, 62>>, <<wP, 28>>, <<bP, 35>>>>, FALSE, NoCastlingRooks, SquareNone, 0, 1),
      positionFrom(<<<<wK, 6>>, <<bK, 62>>, <<wP, 28>>, <<wP, 27>>, <<bN, 45>>>>, FALSE, NoCastlingRooks, SquareNone, 0, 1),
      positionFrom(<<<<wK, 6>>, <<bK, 62>>, <<wP, 36>>>>, FALSE, NoCastlingRooks, SquareNone, 0, 1),
      positionFrom(<<<<wK, 6>>, <<bK, 62>>, <<wP, 36>>, <<wR, 4>>>>, FALSE, NoCastlingRooks, SquareNone, 0, 1),
      positionFrom(<<<<wK, 6>>, <<bK, 62>>, <<bP, 35>>, <<wQ, 3>>>>, FALSE, NoCastlingRooks, SquareNone, 0, 1),
      positionFrom(<<<<wK, 6>>, <<bK, 62>>, <<wN, 18>>>>, FALSE, NoCastlingRooks, SquareNone, 0, 1),
      positionFrom(<<<<wK, 6>>, <<bK, 62>>, <<bB, 58>>, <<wR, 0>>>>, TRUE, NoCastlingRooks, SquareNone, 0, 1)>>

InitCache ==
    /\ RestInit
    /\ pos = CachePositions[1]
    /\ g_opts = [underpromotions |-> FALSE, chess960 |-> FALSE]
    /\ Quiescence = FALSE /\ m_hashMove = NullMove /\ m_killer = NullMove
    /\ m_prevMove = FALSE /\ m_prevPrevMove = FALSE /\ m_history = NullHistory
    /\ see = {} /\ m_moves = <<>> /\ m_stage = StageStart /\ m_idx = 0
    /\ m_noisyEnd = 0 /\ m_goodNoisyEnd = 0 /\ m_countermove = NullMove /\ returned = <<>>
    /\ setup = [scenario |-> 0, included |-> {}, ep |-> FALSE]
    /\ genDone = FALSE /\ noisyList = <<>> /\ quietList = <<>> /\ allList = <<>>
    /\ saved = <<>>
    /\ lastOp = [op |-> "none"]

\* what one call of staticEval(reached, &pawnCache) leaves behind
cachedCall(reached, r) ==
    /\ pos' = reached
    /\ pawnCache' = r.cache
    /\ lastOp' = [op |-> "staticEvalCached",
                  result |-> finalScore(reached, r.total) * (IF toMove(reached) = Black THEN -1 ELSE 1) + Tempo,
                  hit |-> r.hit, pawnStructure |-> r.pawnStructure, passers |-> r.passers, prev |-> pos]

\* the searcher reaches another position and calls staticEval(pos, &pawnCache)
StaticEvalCached ==
    /\ \E i \in DOMAIN CachePositions :
          cachedCall(CachePositions[i], Evaluator(CachePositions[i], TRUE, pawnCache))
    /\ UNCHANGED <<saved, g_opts, mgVars, genVars, uciVars, positionBoards>>

NextCache == StaticEvalCached

SpecCache == InitCache /\ [][NextCache]_vars

\* C17: with one shared pawn cache every staticEval(pos, cache) returns what
\* staticEval(pos, nullptr) returns, and the pawn-structure score and the
\* passers of each colour it works with are those computed afresh, also when
\* the entry was written for a position with other pieces, castling rights
\* or en-passant square.
C17_CacheTransparent ==
    lastOp.op = "staticEvalCached" =>
        /\ lastOp.result = staticEval(pos, FALSE, EmptyPawnCache)
        /\ lastOp.pawnStructure = Evaluator(pos, FALSE, EmptyPawnCache).pawnStructure
        /\ lastOp.passers = Evaluator(pos, FALSE, EmptyPawnCache).passers
\* a hit on an entry written for a position with the same pawns but other
\* pieces, with passers of both colours
C17_Witness ==
    /\ lastOp.op = "staticEvalCached"
    /\ lastOp.hit
    /\ pawnKey(lastOp.prev) = pawnKey(pos)
    /\ boardsOf(lastOp.prev) # boardsOf(pos)
    /\ lastOp.passers[1] # {} /\ lastOp.passers[2] # {}
    /\ lastOp.pawnStructure # ZeroScore

----------------------------------------------------------------------------
(* Harness for PositionBoards: from the empty boards, pieces are set,      *)
(* removed, moved and promoted on a few squares, each call made as         *)
(* Position makes it (setPiece on an empty square, removePiece of the      *)
(* piece standing there, movePiece / moveAndChangePiece to an empty        *)
(* square); placed records what the caller put where.                      *)

MaxBoardOps == 6
BoardSquares == {0, 9, 55, 63}
BoardPieces == {wP, bP, wN, bB, wR, bQ, wK}
PromotionTargets == {Knight, Bishop, Rook, Queen}

InitBoards ==
    /\ RestInit
    /\ pos = positionFrom(<<<<wK, 4>>, <<bK, 60>>>>, FALSE, NoCastlingRooks, SquareNone, 0, 1)
    /\ g_opts = [underpromotions |-> FALSE, chess960 |-> FALSE]
    /\ Quiescence = FALSE /\ m_hashMove = NullMove /\ m_killer = NullMove
    /\ m_prevMove = FALSE /\ m_prevPrevMove = FALSE /\ m_history = NullHistory
    /\ see = {} /\ m_moves = <<>> /\ m_stage = StageStart /\ m_idx = 0
    /\ m_noisyEnd = 0 /\ m_goodNoisyEnd = 0 /\ m_countermove = NullMove /\ returned = <<>>
    /\ setup = [scenario |-> 0, included |-> {}, ep |-> FALSE]
    /\ genDone = FALSE /\ noisyList = <<>> /\ quietList = <<>> /\ allList = <<>>
    /\ saved = <<>>
    /\ lastOp = [op |-> "none"]

boardsCall(op, boards, placed) ==
    /\ positionBoards.ops < MaxBoardOps
    /\ positionBoards' = [boards |-> boards, placed |-> placed, ops |-> positionBoards.ops + 1, last |-> op]
    /\ UNCHANGED <<pos, g_opts, mgVars, genVars, posVars, uciVars, evalVars>>

SetPiece ==
    \E square \in BoardSquares, piece \in BoardPieces :
        /\ positionBoards.placed[square] = PieceNone
        /\ boardsCall("setPiece", boardsSetPiece(positionBoards.boards, square, piece),
                      [positionBoards.placed EXCEPT ![square] = piece])

RemovePiece ==
    \E square \in BoardSquares :
        /\ positionBoards.placed[square] # PieceNone
        /\ boardsCall("removePiece",
                      boardsRemovePiece(positionBoards.boards, square, positionBoards.placed[square]),
                      [positionBoards.placed EXCEPT ![square] = PieceNone])

MovePiece ==
    \E src \in BoardSquares, dst \in BoardSquares :
        /\ positionBoards.placed[src] # PieceNone
        /\ positionBoards.placed[dst] = PieceNone
        /\ boardsCall("movePiece",
                      boardsMovePiece(positionBoards.boards, src, dst, positionBoards.placed[src]),
                      [positionBoards.placed EXCEPT ![src] = PieceNone, ![dst] = positionBoards.placed[src]])

MoveAndChangePiece ==
    \E src \in BoardSquares, dst \in BoardSquares, target \in PromotionTargets :
        /\ positionBoards.placed[src] # PieceNone
        /\ basePiece(positionBoards.placed[src]) = Pawn
        /\ positionBoards.placed[dst] = PieceNone
        /\ boardsCall("moveAndChangePiece",
                      boardsMoveAndChangePiece(positionBoards.boards, src, dst, positionBoards.placed[src], target),
                      [positionBoards.placed EXCEPT
                          ![src] = PieceNone,
                          ![dst] = colorPiece(target, pieceColor(positionBoards.placed[src]))])

NextBoards == SetPiece \/ RemovePiece \/ MovePiece \/ MoveAndChangePiece

SpecBoards == InitBoards /\ [][NextBoards]_vars

\* C19: after any such sequence the black and white occupancies are
\* disjoint, every occupied square is in exactly one piece bitboard, and
\* pieceAt returns the piece placed on each square (None on an empty one).
C19_BoardsConsistent ==
    LET boards == positionBoards.boards
    IN /\ blackOccupancy(boards) \cap whiteOccupancy(boards) = {}
       /\ \A s \in occupancy(boards) : Cardinality({b \in BasePieces : s \in forPiece(boards, b)}) = 1
       /\ \A s \in Squares : pieceAt(boards, s) = positionBoards.placed[s]
\* a pawn has just been moved and changed while pieces of both colours stand
\* on the boards and an earlier piece has been removed or moved away
C19_Witness ==
    /\ positionBoards.last = "moveAndChangePiece"
    /\ positionBoards.ops >= 4
    /\ blackOccupancy(positionBoards.boards) # {}
    /\ whiteOccupancy(positionBoards.boards) # {}
    /\ Cardinality(occupancy(positionBoards.boards)) < positionBoards.ops - 1

----------------------------------------------------------------------------
(* Castling moves emitted by the generators                                *)

\* the castling rooks stored for the side to move, those that are not None
storedRooks(p) ==
    (IF toMove(p) = Black
     THEN {castlingRooks(p).blackShort, castlingRooks(p).blackLong}
     ELSE {castlingRooks(p).whiteShort, castlingRooks(p).whiteLong}) \ {SquareNone}
castlingMoves(list) == {m \in moveSet(list) : m.type = "Castling"}

\* C20: generateQuiet and generateAll emit a castling move only when the
\* side to move is not in check and a castling rook is stored for it, every
\* such move goes from the mover's king square to that stored rook square,
\* and generateNoisy emits no castling move.
C20_CastlingEmission ==
    genDone =>
        /\ \A m \in castlingMoves(quietList) \cup castlingMoves(allList) :
               /\ ~isCheck(pos)
               /\ m.src = king(pos, toMove(pos))
               /\ m.dst \in storedRooks(pos)
        /\ castlingMoves(noisyList) = {}

----------------------------------------------------------------------------
(* uci::moveToString (uci.cpp)                                             *)

\* squareToString: file letter, then rank digit
squareToString(square) == <<FileChars[squareFile(square) + 1], RankChars[squareRank(square) + 1]>>
\* basePieceToChar for the four promotion targets
basePieceToChar(piece) ==
    CASE piece = Knight -> "n" [] piece = Bishop -> "b" [] piece = Rook -> "r" [] OTHER -> "q"

\* moveToString printing the rook's square for every castling move
moveToStringKingTakesRook(move, chess960) ==
    IF move = NullMove THEN <<"0", "0", "0", "0">>
    ELSE squareToString(move.src) \o squareToString(move.dst)
             \o (IF move.type = "Promotion" THEN <<basePieceToChar(move.target)>> ELSE <<>>)

moveToString(move, chess960) ==
    IF move = NullMove THEN <<"0", "0", "0", "0">>
    ELSE IF move.type # "Castling" \/ chess960
    THEN squareToString(move.src) \o squareToString(move.dst)
             \o (IF move.type = "Promotion" THEN <<basePieceToChar(move.target)>> ELSE <<>>)
    ELSE squareToString(move.src)
             \o squareToString(IF squareFile(move.src) < squareFile(move.dst)
                               THEN toSquare(squareRank(move.src), 6)
                               ELSE toSquare(squareRank(move.src), 2))

\* the variables a harness leaves at their values after construction
IdleGenerator ==
    /\ Quiescence = FALSE /\ m_hashMove = NullMove /\ m_killer = NullMove
    /\ m_prevMove = FALSE /\ m_prevPrevMove = FALSE /\ m_history = NullHistory
    /\ see = {} /\ m_moves = <<>> /\ m_stage = StageStart /\ m_idx = 0
    /\ m_noisyEnd = 0 /\ m_goodNoisyEnd = 0 /\ m_countermove = NullMove /\ returned = <<>>
    /\ setup = [scenario |-> 0, included |-> {}, ep |-> FALSE]
    /\ genDone = FALSE /\ noisyList = <<>> /\ quietList = <<>> /\ allList = <<>>

(* Harness: a move of any type between a few squares is printed with      *)
(* UCI_Chess960 on or off.                                                 *)
MaxMoveSquares == 6
MoveSquares == <<0, 4, 7, 12, 52, 60, 63, 62, 56>>
PrintedSquares == {MoveSquares[i] : i \in 1 .. MaxMoveSquares}
PrintedMoves ==
    {moveStandard(a, b) : a \in PrintedSquares, b \in PrintedSquares}
    \cup {moveCastling(a, b) : a \in PrintedSquares, b \in PrintedSquares}
    \cup {moveEnPassant(a, b) : a \in PrintedSquares, b \in PrintedSquares}
    \cup UNION {{movePromotion(a, b, t) : a \in PrintedSquares, b \in PrintedSquares} : t \in Knight .. Queen}

InitStr ==
    /\ RestInit
    /\ IdleGenerator
    /\ saved = <<>>
    /\ pos = positionFrom(<<<<wK, 4>>, <<bK, 60>>>>, FALSE, NoCastlingRooks, SquareNone, 0, 1)
    /\ g_opts \in {[underpromotions |-> FALSE, chess960 |-> c] : c \in BOOLEAN}
    /\ lastOp = [op |-> "none"]

MoveToString ==
    /\ \E move \in PrintedMoves :
          lastOp' = [op |-> "moveToString", move |-> move, chess960 |-> g_opts.chess960,
                     result |-> moveToString(move, g_opts.chess960)]
    /\ UNCHANGED <<pos, saved, g_opts, mgVars, genVars, restVars>>

\* setoption name UCI_Chess960 between two prints
SetChess960 ==
    /\ g_opts' = [g_opts EXCEPT !.chess960 = ~@]
    /\ UNCHANGED <<pos, posVars, mgVars, genVars, restVars>>

NextStr == MoveToString \/ SetChess960

SpecStr == InitStr /\ [][NextStr]_vars

castledKingFile(move) == IF squareFile(move.dst) > squareFile(move.src) THEN 6 ELSE 2
----------------------------------------------------------------------------
(* En-passant captures of generateNoisy and generateAll *)

enPassantMoves(list) == {m \in moveSet(list) : m.type = "EnPassant"}

\* the move captures on the en-passant square with a pawn of the side to
\* move that attacks it
attacksEnPassant(p, m) ==
    /\ enPassant(p) # SquareNone
    /\ m.dst = enPassant(p)
    /\ pieceAt(boardsOf(p), m.src) = colorPiece(Pawn, toMove(p))
    /\ m.dst \in PawnAttacks[m.src][toMove(p)]

\* C23: generateNoisy and generateAll emit an en-passant move only when the
\* en-passant square is set and a pawn of the side to move attacks it, and
\* in check by one piece only when the pawn it captures is the checker
C23_EnPassantEmission ==
    genDone =>
        \A m \in enPassantMoves(noisyList) \cup enPassantMoves(allList) :
            /\ attacksEnPassant(pos, m)
            /\ inSingleCheck => checkers(pos) = epPawnOf(pos)


----------------------------------------------------------------------------
(* The noisy moves below the good threshold *)

\* the noisy list as genNoisy leaves it: scored and stable-sorted
sortedNoisy(p) == sortFrom(scoreNoisy(generateNoisy(<<>>, p), 0, p), 0)

isBadNoisy(r) == r.origin = "noisy" /\ r.score < GoodNoisyThreshold

\* where a move stands in the sorted noisy list
sortedIndex(p, move) == CHOOSE i \in 1 .. Len(sortedNoisy(p)) : sortedNoisy(p)[i].move = move

\* C24: in non-quiescence mode the noisy moves scored below the good
\* threshold are returned after every quiet move, and among themselves in
\* the relative order the stable descending sort gave them, moves with
\* equal scores in generation order
C24_BadNoisyOrder ==
    ~Quiescence =>
        \A i \in 1 .. Len(returned) : \A j \in 1 .. Len(returned) :
            isBadNoisy(returned[i]) =>
                /\ returned[j].origin = "quiet" => j < i
                /\ isBadNoisy(returned[j]) /\ i < j =>
                      sortedIndex(pos, returned[i].move) < sortedIndex(pos, returned[j].move)


----------------------------------------------------------------------------
(* Promotions of generateQuiet *)

\* the pawn moves of the side to move onto its last rank, as <<src, dst>>:
\* a push to an empty square or a capture of an enemy piece
lastRankPawnMoves(p) ==
    LET us == toMove(p)
        boards == boardsOf(p)
    IN {sd \in forPieceOf(boards, Pawn, us) \X promotionRank(us) :
           \/ sd[2] = sd[1] + offsetUp(us) /\ sd[2] \notin occupancy(boards)
           \/ sd[2] \in PawnAttacks[sd[1]][us] /\ sd[2] \in forColor(boards, oppColor(us))}

\* what the destination mask of a generator lets a piece other than the
\* king do: anything out of check, capture the checker or block the check
\* in check by one piece, nothing in check by two
maskAllows(p, dst) ==
    /\ ~multiple(checkers(p))
    /\ isCheck(p) => dst \in checkers(p) \cup rayBetween(king(p, toMove(p)), lowestSquare(checkers(p)))

promotionsIn(list, sd) == {m.target : m \in {x \in moveSet(list) : x.type = "Promotion" /\ x.src = sd[1] /\ x.dst = sd[2]}}

\* C25: for every pawn move onto the last rank that the destination mask
\* allows, generateQuiet emits the knight promotion, and the rook and bishop
\* promotions exactly when underpromotions are on; it never emits a queen
\* promotion, which only generateNoisy does
C25_Underpromotions ==
    genDone =>
        /\ \A sd \in lastRankPawnMoves(pos) :
               maskAllows(pos, sd[2]) =>
                   /\ promotionsIn(quietList, sd) =
                          (IF g_opts.underpromotions THEN {Knight, Rook, Bishop} ELSE {Knight})
                   /\ Queen \in promotionsIn(noisyList, sd)
        /\ \A m \in moveSet(quietList) : m.type = "Promotion" => m.target # Queen

\* in check from the rook a8 along the last rank, with underpromotions on:
\* the pawn b7 may take the rook and the pawn c7 may block on c8
C25_Witness ==
    /\ genDone
    /\ g_opts.underpromotions
    /\ isCheck(pos)
    /\ \E sd \in lastRankPawnMoves(pos) :
           maskAllows(pos, sd[2]) /\ sd[2] \in checkers(pos) /\ Rook \in promotionsIn(quietList, sd)
    /\ \E sd \in lastRankPawnMoves(pos) :
           maskAllows(pos, sd[2]) /\ sd[2] \notin occupancy(boardsOf(pos)) /\ Bishop \in promotionsIn(quietList, sd)


----------------------------------------------------------------------------
(* Position::operator== against Position::deepEquals *)

\* ShufflePosition with Black to move
ShufflePositionBlack ==
    positionFrom(<<<<wK, A1>>, <<bK, H8>>, <<wP, toSquare(3, 3)>>, <<bP, toSquare(4, 3)>>>>,
                 TRUE, NoCastlingRooks, SquareNone, 0, 1)

ComparedPositions == {ShufflePosition, ShufflePositionBlack, EnPassantPosition}

\* two positions read from FENs: pos, and a second one kept in saved
InitCompare ==
    /\ RestInit
    /\ IdleGenerator
    /\ pos \in ComparedPositions
    /\ saved \in {<<q>> : q \in ComparedPositions}
    /\ g_opts = [chess960 |-> FALSE, underpromotions |-> FALSE]
    /\ lastOp = [op |-> "init"]

\* pos.applyMove(m) for a legal move m
CompareApplyMove ==
    /\ Len(pos.m_states) <= MaxPly
    /\ \E m \in legalMoves(pos) :
           /\ pos' = applyMove(pos, m)
           /\ lastOp' = [op |-> "applyMove", move |-> m]
    /\ UNCHANGED <<saved, g_opts, mgVars, genVars, restVars>>

\* pos.popMove()
ComparePopMove ==
    /\ Len(pos.m_states) > 1
    /\ pos' = popMove(pos)
    /\ lastOp' = [op |-> "popMove"]
    /\ UNCHANGED <<saved, g_opts, mgVars, genVars, restVars>>

\* pos == other and pos.deepEquals(other)
Compare ==
    /\ lastOp' = [op |-> "compare", equal |-> positionEquals(pos, saved[1]),
                  deep |-> deepEquals(pos, saved[1])]
    /\ UNCHANGED <<pos, saved, g_opts, mgVars, genVars, restVars>>

NextCompare == CompareApplyMove \/ ComparePopMove \/ Compare

SpecCompare == InitCompare /\ [][NextCompare]_vars

\* C26: two Positions that compare equal with operator== (same boards,
\* castling rooks, en-passant square, halfmove clock and fullmove number)
\* also agree on king squares, checkers, phase, material, key and pawn key:
\* deepEquals holds
C26_EqualImpliesDeepEqual ==
    lastOp.op = "compare" /\ lastOp.equal => lastOp.deep


----------------------------------------------------------------------------
(* Position::isNoisy against the two generators *)

\* C27: every move emitted by generateNoisy satisfies Position::isNoisy and
\* no move emitted by generateQuiet does
C27_NoisyQuietSplit ==
    genDone =>
        /\ \A m \in moveSet(noisyList) : isNoisy(pos, m)
        /\ \A m \in moveSet(quietList) : ~isNoisy(pos, m)


----------------------------------------------------------------------------
(* Completeness of MoveGenerator::next *)

generatedMoves(p) == moveSet(generateNoisy(<<>>, p)) \cup moveSet(generateQuiet(<<>>, p))

\* the calls of next() made so far that returned the null move
nullReturns == {i \in 1 .. Len(returned) : returned[i].move = NullMove}

returnedBefore(n) == {returned[i].move : i \in 1 .. (n - 1)}

\* C28: in non-quiescence mode, if isPseudolegal holds for every move the
\* generators emit, then every move of generateNoisy or generateQuiet has
\* been returned by next() before it first returns NullMove, whatever the
\* hash move, the killer and the countermove are, and every call after
\* that one returns NullMove
C28_AllMovesReturned ==
    ~Quiescence /\ (\A m \in generatedMoves(pos) : isPseudolegal(pos, m)) =>
        \A n \in nullReturns :
            /\ generatedMoves(pos) \subseteq returnedBefore(n)
            /\ \A i \in (n + 1) .. Len(returned) : returned[i].move = NullMove

\* hash move, killer and countermove are three different generated moves,
\* the killer a capture; next() has returned NullMove and was called again
C28_Witness ==
    /\ ~Quiescence
    /\ \A m \in generatedMoves(pos) : isPseudolegal(pos, m)
    /\ Cardinality(nullReturns) >= 2
    /\ {m_hashMove, m_killer, m_countermove} \subseteq generatedMoves(pos)
    /\ Cardinality({m_hashMove, m_killer, m_countermove}) = 3
    /\ m_killer \in moveSet(generateNoisy(<<>>, pos))
    /\ \A n \in nullReturns : generatedMoves(pos) \subseteq returnedBefore(n)


----------------------------------------------------------------------------
(* The pending hash size *)

\* the last command was setoption name Hash with a value that parses
hashLineRead ==
    /\ lastOp.op = "setoption"
    /\ Len(lastOp.tokens) = 5
    /\ lastOp.tokens[3].text = "Hash"
    /\ lastOp.tokens[5].text = "#"

clearHashRead == lastOp.op = "setoption" /\ lastOp.tokens = ClearHashLine

\* the searcher's table is as it was before the last command
tableKept == /\ m_searcher.hashSize = lastOp.before.m_searcher.hashSize
             /\ m_searcher.tt = lastOp.before.m_searcher.tt

\* the last command applied the size that was pending and nothing is
\* pending any more
pendingApplied ==
    /\ m_searcher.hashSize = lastOp.before.m_hashSize.value
    /\ m_hashSize = NoValue

\* C29: setoption name Hash does not touch the searcher, the size stays
\* pending; the first later go read while no search runs, or the first later
\* Clear Hash, applies it and leaves nothing pending, so that a further go
\* does not resize; a go rejected because a search runs, and every other
\* command, leaves the size pending
C29_PendingHashSize ==
    lastOp.op \in {"setoption", "go", "stop", "bench", "position"} =>
        LET before == lastOp.before
            goRead == lastOp.op = "go"
        IN /\ hashLineRead => tableKept /\ m_hashSize.has
           /\ goRead /\ ~before.m_searcher.searching /\ before.m_hashSize.has => pendingApplied
           /\ goRead /\ ~before.m_searcher.searching /\ ~before.m_hashSize.has =>
                  /\ m_searcher.hashSize = before.m_searcher.hashSize
                  /\ m_hashSize = NoValue
           /\ goRead /\ before.m_searcher.searching => tableKept /\ m_hashSize = before.m_hashSize
           /\ clearHashRead /\ before.m_hashSize.has => pendingApplied
           /\ ~hashLineRead /\ ~goRead /\ ~clearHashRead => m_hashSize = before.m_hashSize

\* Hash 8 was pending over a searcher with 16; the go just read, with no
\* search running, has resized the searcher and nothing is pending
C29_Witness ==
    /\ lastOp.op = "go"
    /\ ~lastOp.before.m_searcher.searching
    /\ lastOp.before.m_hashSize = Some(8)
    /\ lastOp.before.m_searcher.hashSize = 16
    /\ m_searcher.hashSize = 8
    /\ m_hashSize = NoValue


----------------------------------------------------------------------------
(* Castling with UCI_Chess960 on and off *)

\* the castling moves generateQuiet emits for the position when
\* g_opts.chess960 has the given value
quietCastling(p, chess960) ==
    IF inDoubleCheck(p) THEN {}
    ELSE castlingMoves(generateKings(TRUE, <<>>, p, {}, [g_opts EXCEPT !.chess960 = chess960]))

\* kings on e1 and e8, every stored castling rook on its corner
standardCastlingSetup(p) ==
    LET cr == castlingRooks(p)
    IN /\ whiteKing(p) = toSquare(0, 4)
       /\ blackKing(p) = toSquare(7, 4)
       /\ cr.whiteShort \in {SquareNone, H1}
       /\ cr.whiteLong \in {SquareNone, A1}
       /\ cr.blackShort \in {SquareNone, H8}
       /\ cr.blackLong \in {SquareNone, A8}

\* C30: with the kings on e1 and e8 and the stored castling rooks on the
\* corners, generateQuiet emits the same set of castling moves with
\* UCI_Chess960 on as with it off
C30_CastlingSameEitherWay ==
    genDone /\ standardCastlingSetup(pos) =>
        /\ castlingMoves(quietList) = quietCastling(pos, g_opts.chess960)
        /\ quietCastling(pos, TRUE) = quietCastling(pos, FALSE)

====
